---- MODULE Spec2Model ----
(***************************************************************************)
(* Model of the audit engine of synth-backend:                             *)
(*   services/ai_classifier.py  classify_bulk, classify_batch,             *)
(*                              _classify_single                           *)
(*                              generate_recommendations                   *)
(*   main.py                    rate_limit_middleware, validate_file,      *)
(*                              check_file_size, audit_files,              *)
(*                              download_report                            *)
(*   services/pdf_report.py     create_pdf (the category table)            *)
(*   services/file_parser.py    parse_file                                 *)
(*   app.py                     audit_files                                *)
(*   savings_calculator.py      estimate_hours_saved, estimate_money_saved *)
(* Strings are sequences of one-character strings, so that lower(),        *)
(* strip() and the substring test are computed and not assumed.  The       *)
(* completion API, the file system and the PDF renderer are the            *)
(* environment: each call returns any of its outcomes.                     *)
(***************************************************************************)
EXTENDS Integers, Sequences, FiniteSets, TLC

VARIABLES
    messages,          \* classify_bulk: the argument list
    industry,          \* classify_bulk: the industry selector string
    hashSeed,          \* the process's string-hash seed (fixes set iteration order)
    pc,                \* position of the request in classify_bulk / audit_files
    limited,           \* classify_bulk: the filtered, capped list
    i,                 \* classify_batch: start index of the current batch (0-based)
    fb,                \* classify_batch: fragments of the batch handled by the except branch
    counts,            \* classify_batch: the Counter
    outstanding,       \* completion API calls issued and not yet returned
    apiCalls,          \* completion API calls issued so far
    data,              \* classify_batch: json.loads(result_text) of the last batch
    classifications,   \* classify_batch: the list of classifications of the last batch
    item_no,           \* classify_batch: items of classifications handled so far
    raw_category,      \* classify_batch: item.get("category", "Other") of the last item
    category,          \* classify_batch: the category counted for the last item
    batchBase,         \* the Counter as it was when the current batch started
    batchSize,         \* len(batch) of the current batch
    batchCause,        \* how the try block of the current batch ended
    fbRaised,          \* calls of _classify_single that raised, in the current batch
    total_messages,    \* audit_files: sum(category_counts.values())
    automatable_count, \* audit_files
    automation_score,  \* audit_files
    savings,           \* audit_files: the four monthly and annual estimates
    issue_count,       \* savings_calculator: the argument of estimate_hours_saved
    est_pc,            \* position of a run of the savings calculator
    est_hours,         \* savings_calculator: what estimate_hours_saved returned
    est_money,         \* savings_calculator: what estimate_money_saved returned
    promptCategories,  \* _build_system_prompt: categories of the last batch prompt
    validCategories,   \* classify_batch: valid_categories of the last batch
    singleCategories,  \* _classify_single: categories of the last call
    rec_pc,            \* position of a run of generate_recommendations
    category_counts,   \* the Counter of the audit, in insertion order
    top_categories,    \* generate_recommendations: most_common(5)
    recommendations,   \* what generate_recommendations returned
    rec_path,          \* whether that is the completion's list or the fallback
    app,               \* the application of the request: main.py or app.py
    client,            \* request.client.host
    files,             \* the uploads of the request
    now,               \* time.time() of the middleware
    before,            \* the shared state as the request found it
    request_counts,    \* main.py: per client, the timestamps of admitted requests
    uploads,           \* the paths in the uploads directory
    report,            \* output/audit_report.pdf: which audit it renders
    req_pc,            \* position of the request
    file_no,           \* audit_files: number of the file in the loop
    saved_paths,       \* audit_files
    total_size,        \* audit_files
    uploaded_files,    \* audit_files
    all_messages,      \* audit_files
    parsedFiles,       \* the files handed to parse_file
    created,           \* the paths the request created in the uploads directory
    classifyCalls,     \* calls of classify_bulk
    faults,            \* the environment faults the request met
    audit_report,      \* audit_files
    pending,           \* what leaves the try block: a return value or an exception
    response,          \* what the client receives
    cleaned,           \* the finally block: paths handled so far
    passed,            \* per client, the timestamps of the requests handed to call_next
    inflight,          \* per client, the requests suspended in call_next
    rejected,          \* per client, the 429 answers since its last admitted request
    decision,          \* the last decision of rate_limit_middleware
    sent,              \* requests the middleware has seen
    audit_data,        \* audit_files: the summary handed to create_pdf
    table_data,        \* create_pdf: the rows of the category table, header left out
    pdf_pc,            \* position of a run of the report renderer
    served             \* what a download following the request received

inputVars == << messages, industry, hashSeed >>

batchVars == << limited, i, fb, outstanding, apiCalls, batchBase, batchSize,
                batchCause, fbRaised >>

decodeVars == << data, classifications, item_no, raw_category, category >>

auditVars == << total_messages, automatable_count, automation_score, savings >>

estVars == << issue_count, est_pc, est_hours, est_money >>

taxVars == << promptCategories, validCategories, singleCategories >>

recVars == << rec_pc, category_counts, top_categories, recommendations, rec_path >>

reqVars == << app, client, files, now, before >>

globalVars == << request_counts, uploads, report >>

loopVars == << file_no, saved_paths, total_size, uploaded_files, all_messages >>

ghostVars == << parsedFiles, created, classifyCalls, faults >>

httpVars == << reqVars, globalVars, req_pc, loopVars, ghostVars, audit_report,
               pending, response, cleaned >>

rateVars == << passed, inflight, rejected, decision, sent >>

tableVars == << audit_data, table_data, pdf_pc >>

laterVars == << rateVars, tableVars, served >>

restVars == << recVars, httpVars, laterVars >>

classifyVars == << inputVars, pc, counts, batchVars, decodeVars, estVars, taxVars >>

vars == << inputVars, pc, counts, batchVars, decodeVars, auditVars, estVars,
           taxVars, restVars >>

-----------------------------------------------------------------------------
(* Strings *)

UpperToLower ==
    [ A |-> "a", B |-> "b", C |-> "c", D |-> "d", E |-> "e", F |-> "f",
      G |-> "g", H |-> "h", I |-> "i", J |-> "j", K |-> "k", L |-> "l",
      M |-> "m", N |-> "n", O |-> "o", P |-> "p", Q |-> "q", R |-> "r",
      S |-> "s", T |-> "t", U |-> "u", V |-> "v", W |-> "w", X |-> "x",
      Y |-> "y", Z |-> "z" ]

\* str.lower()
Lower(s) ==
    [ k \in 1..Len(s) |->
        IF s[k] \in DOMAIN UpperToLower THEN UpperToLower[s[k]] ELSE s[k] ]

Whitespace == { " ", "\t", "\n", "\r" }

\* str.strip()
Strip(s) ==
    LET idx == { k \in 1..Len(s) : s[k] \notin Whitespace }
        lo  == CHOOSE k \in idx : \A m \in idx : k <= m
        hi  == CHOOSE k \in idx : \A m \in idx : m <= k
    IN  IF idx = {} THEN << >> ELSE SubSeq(s, lo, hi)

\* a in b, for two str
IsSubstring(a, b) ==
    \/ a = << >>
    \/ \E k \in 0..(Len(b) - Len(a)) :
          b[k + 1] = a[1] /\ SubSeq(b, k + 1, k + Len(a)) = a

-----------------------------------------------------------------------------
(* The taxonomies *)

Lbl ==
  [ OrderStatus |-> <<"O", "r", "d", "e", "r", " ", "S", "t", "a", "t", "u", "s">>,
    RefundReturn |-> <<"R", "e", "f", "u", "n", "d", "/", "R", "e", "t", "u", "r", "n">>,
    PaymentIssue |-> <<"P", "a", "y", "m", "e", "n", "t", " ", "I", "s", "s", "u", "e">>,
    SalesLead |-> <<"S", "a", "l", "e", "s", " ", "L", "e", "a", "d">>,
    VendorCommunication |-> <<"V", "e", "n", "d", "o", "r", " ", "C", "o", "m", "m", "u", "n", "i", "c", "a", "t", "i", "o", "n">>,
    HRAdmin |-> <<"H", "R", "/", "A", "d", "m", "i", "n">>,
    CustomerComplaint |-> <<"C", "u", "s", "t", "o", "m", "e", "r", " ", "C", "o", "m", "p", "l", "a", "i", "n", "t">>,
    TechnicalSupport |-> <<"T", "e", "c", "h", "n", "i", "c", "a", "l", " ", "S", "u", "p", "p", "o", "r", "t">>,
    BillingInquiry |-> <<"B", "i", "l", "l", "i", "n", "g", " ", "I", "n", "q", "u", "i", "r", "y">>,
    Other |-> <<"O", "t", "h", "e", "r">>,
    ShippingDelivery |-> <<"S", "h", "i", "p", "p", "i", "n", "g", "/", "D", "e", "l", "i", "v", "e", "r", "y">>,
    ProductInquiry |-> <<"P", "r", "o", "d", "u", "c", "t", " ", "I", "n", "q", "u", "i", "r", "y">>,
    InventoryStock |-> <<"I", "n", "v", "e", "n", "t", "o", "r", "y", "/", "S", "t", "o", "c", "k">>,
    PricingDiscount |-> <<"P", "r", "i", "c", "i", "n", "g", "/", "D", "i", "s", "c", "o", "u", "n", "t">>,
    AccountIssue |-> <<"A", "c", "c", "o", "u", "n", "t", " ", "I", "s", "s", "u", "e">>,
    AccountAccess |-> <<"A", "c", "c", "o", "u", "n", "t", " ", "A", "c", "c", "e", "s", "s">>,
    TechnicalIssue |-> <<"T", "e", "c", "h", "n", "i", "c", "a", "l", " ", "I", "s", "s", "u", "e">>,
    FeatureRequest |-> <<"F", "e", "a", "t", "u", "r", "e", " ", "R", "e", "q", "u", "e", "s", "t">>,
    BugReport |-> <<"B", "u", "g", " ", "R", "e", "p", "o", "r", "t">>,
    ComplaintEscalation |-> <<"C", "o", "m", "p", "l", "a", "i", "n", "t", "/", "E", "s", "c", "a", "l", "a", "t", "i", "o", "n">>,
    GeneralInquiry |-> <<"G", "e", "n", "e", "r", "a", "l", " ", "I", "n", "q", "u", "i", "r", "y">>,
    Cancellation |-> <<"C", "a", "n", "c", "e", "l", "l", "a", "t", "i", "o", "n">>,
    LeaveRequest |-> <<"L", "e", "a", "v", "e", " ", "R", "e", "q", "u", "e", "s", "t">>,
    PayrollQuery |-> <<"P", "a", "y", "r", "o", "l", "l", " ", "Q", "u", "e", "r", "y">>,
    Onboarding |-> <<"O", "n", "b", "o", "a", "r", "d", "i", "n", "g">>,
    PolicyQuestion |-> <<"P", "o", "l", "i", "c", "y", " ", "Q", "u", "e", "s", "t", "i", "o", "n">>,
    BenefitsInquiry |-> <<"B", "e", "n", "e", "f", "i", "t", "s", " ", "I", "n", "q", "u", "i", "r", "y">>,
    PerformanceReview |-> <<"P", "e", "r", "f", "o", "r", "m", "a", "n", "c", "e", " ", "R", "e", "v", "i", "e", "w">>,
    TrainingRequest |-> <<"T", "r", "a", "i", "n", "i", "n", "g", " ", "R", "e", "q", "u", "e", "s", "t">>,
    Compliance |-> <<"C", "o", "m", "p", "l", "i", "a", "n", "c", "e">>,
    NewLead |-> <<"N", "e", "w", " ", "L", "e", "a", "d">>,
    FollowUp |-> <<"F", "o", "l", "l", "o", "w", "-", "u", "p">>,
    DemoRequest |-> <<"D", "e", "m", "o", " ", "R", "e", "q", "u", "e", "s", "t">>,
    ProposalQuote |-> <<"P", "r", "o", "p", "o", "s", "a", "l", "/", "Q", "u", "o", "t", "e">>,
    Negotiation |-> <<"N", "e", "g", "o", "t", "i", "a", "t", "i", "o", "n">>,
    Closing |-> <<"C", "l", "o", "s", "i", "n", "g">>,
    UpsellCrossSell |-> <<"U", "p", "s", "e", "l", "l", "/", "C", "r", "o", "s", "s", "-", "s", "e", "l", "l">>,
    LostDeal |-> <<"L", "o", "s", "t", " ", "D", "e", "a", "l">>,
    AccessPermissions |-> <<"A", "c", "c", "e", "s", "s", "/", "P", "e", "r", "m", "i", "s", "s", "i", "o", "n", "s">>,
    SoftwareIssue |-> <<"S", "o", "f", "t", "w", "a", "r", "e", " ", "I", "s", "s", "u", "e">>,
    HardwareIssue |-> <<"H", "a", "r", "d", "w", "a", "r", "e", " ", "I", "s", "s", "u", "e">>,
    NetworkConnectivity |-> <<"N", "e", "t", "w", "o", "r", "k", "/", "C", "o", "n", "n", "e", "c", "t", "i", "v", "i", "t", "y">>,
    EmailIssue |-> <<"E", "m", "a", "i", "l", " ", "I", "s", "s", "u", "e">>,
    SecurityConcern |-> <<"S", "e", "c", "u", "r", "i", "t", "y", " ", "C", "o", "n", "c", "e", "r", "n">>,
    SetupInstallation |-> <<"S", "e", "t", "u", "p", "/", "I", "n", "s", "t", "a", "l", "l", "a", "t", "i", "o", "n">>,
    DataRecovery |-> <<"D", "a", "t", "a", " ", "R", "e", "c", "o", "v", "e", "r", "y">>,
    PasswordReset |-> <<"P", "a", "s", "s", "w", "o", "r", "d", " ", "R", "e", "s", "e", "t">> ]

INDUSTRY_CATEGORIES ==
  [ general |->
        << Lbl.OrderStatus, Lbl.RefundReturn, Lbl.PaymentIssue, Lbl.SalesLead, Lbl.VendorCommunication, Lbl.HRAdmin, Lbl.CustomerComplaint, Lbl.TechnicalSupport, Lbl.BillingInquiry, Lbl.Other >>,
    ecommerce |->
        << Lbl.OrderStatus, Lbl.RefundReturn, Lbl.PaymentIssue, Lbl.ShippingDelivery, Lbl.ProductInquiry, Lbl.InventoryStock, Lbl.PricingDiscount, Lbl.AccountIssue, Lbl.Other >>,
    customer_support |->
        << Lbl.AccountAccess, Lbl.BillingInquiry, Lbl.TechnicalIssue, Lbl.FeatureRequest, Lbl.BugReport, Lbl.ComplaintEscalation, Lbl.GeneralInquiry, Lbl.Cancellation, Lbl.Other >>,
    hr_admin |->
        << Lbl.LeaveRequest, Lbl.PayrollQuery, Lbl.Onboarding, Lbl.PolicyQuestion, Lbl.BenefitsInquiry, Lbl.PerformanceReview, Lbl.TrainingRequest, Lbl.Compliance, Lbl.Other >>,
    sales |->
        << Lbl.NewLead, Lbl.FollowUp, Lbl.DemoRequest, Lbl.ProposalQuote, Lbl.Negotiation, Lbl.Closing, Lbl.UpsellCrossSell, Lbl.LostDeal, Lbl.Other >>,
    it_helpdesk |->
        << Lbl.AccessPermissions, Lbl.SoftwareIssue, Lbl.HardwareIssue, Lbl.NetworkConnectivity, Lbl.EmailIssue, Lbl.SecurityConcern, Lbl.SetupInstallation, Lbl.DataRecovery, Lbl.Other >> ]

\* label texts a completion can carry that are not taxonomy labels
Txt ==
  [ lower_order |-> <<"o", "r", "d", "e", "r", " ", "s", "t", "a", "t", "u", "s">>,
    wrapped_refund |-> <<"C", "a", "t", "e", "g", "o", "r", "y", ":", " ", "R", "e", "f", "u", "n", "d", "/", "R", "e", "t", "u", "r", "n">>,
    two_labels |-> <<"O", "r", "d", "e", "r", " ", "S", "t", "a", "t", "u", "s", " ", "o", "r", " ", "R", "e", "f", "u", "n", "d", "/", "R", "e", "t", "u", "r", "n">>,
    two_sales |-> <<"c", "l", "o", "s", "i", "n", "g", " ", "a", " ", "n", "e", "w", " ", "l", "e", "a", "d">>,
    spam |-> <<"S", "p", "a", "m">>,
    empty |-> <<>>,
    padded_other |-> <<" ", "O", "t", "h", "e", "r", "\n">>,
    upper_other |-> <<"O", "T", "H", "E", "R">> ]


NoIndustry == "retail"      \* a selector that is no key of INDUSTRY_CATEGORIES

Industries == { "general", "sales", NoIndustry }

\* INDUSTRY_CATEGORIES.get(industry, INDUSTRY_CATEGORIES["general"])
Categories(ind) ==
    IF ind \in DOMAIN INDUSTRY_CATEGORIES
    THEN INDUSTRY_CATEGORIES[ind]
    ELSE INDUSTRY_CATEGORIES["general"]

Range(s) == { s[k] : k \in DOMAIN s }

\* _build_system_prompt: the categories listed in the batch prompt
PromptCategories(ind) == Categories(ind)

\* _classify_single as it would be if an unknown selector stood for the
\* first taxonomy
SingleCategoriesFirstKey(ind) ==
    IF ind \in DOMAIN INDUSTRY_CATEGORIES
    THEN INDUSTRY_CATEGORIES[ind]
    ELSE INDUSTRY_CATEGORIES["ecommerce"]

\* _classify_single: the categories of the per-fragment prompt and match
SingleCategories(ind) == Categories(ind)

\* classify_batch: valid_categories
ValidCategories(ind) == Range(Categories(ind))

\* no taxonomy looked up yet
NoCategories == << >>

NoValidCategories == {}

MinOf(S) == CHOOSE k \in S : \A m \in S : k <= m

MaxTaxonomy ==
    CHOOSE n \in { Len(INDUSTRY_CATEGORIES[k]) : k \in DOMAIN INDUSTRY_CATEGORIES } :
        \A k \in DOMAIN INDUSTRY_CATEGORIES : Len(INDUSTRY_CATEGORIES[k]) <= n

\* The iteration order of set(categories) depends on the hash seed of the
\* process.  Every label can come first: the orders are the rotations of
\* the list, one per seed.
AllSeeds == 0..(MaxTaxonomy - 1)

MaxSeed == 1

\* the seeds a classification run is started with
HashSeeds == { s \in AllSeeds : s <= MaxSeed }

SetOrder(cats, seed) ==
    [ k \in 1..Len(cats) |-> cats[((k - 1 + seed) % Len(cats)) + 1] ]

-----------------------------------------------------------------------------
(* Counter *)

EmptyCounter == [ k \in {} |-> 0 ]

\* counts[k] += 1
Inc(c, k) ==
    IF k \in DOMAIN c
    THEN [ c EXCEPT ![k] = @ + 1 ]
    ELSE [ x \in (DOMAIN c) \cup {k} |-> IF x = k THEN 1 ELSE c[x] ]

RECURSIVE SumOver(_, _)
SumOver(c, keys) ==
    IF keys = {} THEN 0
    ELSE LET k == CHOOSE x \in keys : TRUE
         IN  c[k] + SumOver(c, keys \ {k})

\* sum(counts.values())
Total(c) == SumOver(c, DOMAIN c)

-----------------------------------------------------------------------------
(* What a completion can return *)

\* one element of the returned array
Obj(s)     == [ isdict |-> TRUE,  has |-> TRUE,  isstr |-> TRUE,  val |-> s ]
ObjNoCat   == [ isdict |-> TRUE,  has |-> FALSE, isstr |-> FALSE, val |-> << >> ]
ObjNullCat == [ isdict |-> TRUE,  has |-> TRUE,  isstr |-> FALSE, val |-> << >> ]
NotDict    == [ isdict |-> FALSE, has |-> FALSE, isstr |-> FALSE, val |-> << >> ]

\* a parsed JSON document: an array, an object (its fields in order) or
\* anything else
JList(items)  == [ t |-> "list",   items |-> items, fields |-> << >> ]
JDict(fields) == [ t |-> "dict",   items |-> << >>, fields |-> fields ]
JScalar       == [ t |-> "scalar", items |-> << >>, fields |-> << >> ]

\* a field of an object: its value is an array, an object holding an array
\* one level further down, or anything else
FList(key, items)   == [ key |-> key, t |-> "list",   items |-> items ]
FNested(key, items) == [ key |-> key, t |-> "dict",   items |-> items ]
FScalar(key)        == [ key |-> key, t |-> "scalar", items |-> << >> ]

MaxItems == 2

RawLabels == { Lbl.NewLead, Txt.two_labels, Txt.spam }

Items == { Obj(s) : s \in RawLabels } \cup { ObjNoCat, ObjNullCat, NotDict }

SeqsUpTo(S, n) == UNION { { s \o << >> : s \in [ 1..m -> S ] } : m \in 0..n }

Uniform(n, x) == [ k \in 1..n |-> x ]

\* the outcomes of the batch call for a batch of n fragments
BatchOutcomes(n) ==
    { [ kind |-> "raise", data |-> JScalar ],
      [ kind |-> "unparsable", data |-> JScalar ],
      [ kind |-> "json", data |-> JScalar ],
      [ kind |-> "json", data |-> JDict(<< FScalar("note"), FList("results", << Obj(Lbl.OrderStatus) >>) >>) ],
      [ kind |-> "json", data |-> JDict(<< FList("output", << Obj(Txt.spam) >>) >>) ] }
    \cup { [ kind |-> "json", data |-> JList(s) ] : s \in SeqsUpTo(Items, MaxItems) }
    \cup { [ kind |-> "json", data |-> JList(Uniform(n, x)) ] : x \in Items }

\* the outcomes of the call for one fragment
SingleOutcomes ==
    { [ kind |-> "raise", text |-> << >> ] }
    \cup { [ kind |-> "text", text |-> s ] :
             s \in { Lbl.Other, Lbl.NewLead, Txt.lower_order, Txt.padded_other,
                     Txt.two_labels, Txt.spam } }

-----------------------------------------------------------------------------
(* classify_batch *)

MAX_MESSAGES == 200
BATCH_SIZE == 10

PREFERRED_KEYS == << "classifications", "results", "data", "items" >>

\* FromCommonKeys as it would be without the loop over the common keys
FromCommonKeysSkipped(fields) == << >>

\* the first loop: the list under the first of the common keys that holds one
FromCommonKeys(fields) ==
    LET hit(key) == { f \in 1..Len(fields) : fields[f].key = key /\ fields[f].t = "list" }
        keys == { k \in 1..Len(PREFERRED_KEYS) : hit(PREFERRED_KEYS[k]) # {} }
    IN  IF keys = {} THEN << >>
        ELSE fields[MinOf(hit(PREFERRED_KEYS[MinOf(keys)]))].items

\* the second loop: the first list among data.values()
FirstListValue(fields) ==
    LET lists == { f \in 1..Len(fields) : fields[f].t = "list" }
    IN  IF lists = {} THEN << >> ELSE fields[MinOf(lists)].items

ExtractClassifications(d) ==
    IF d.t = "list" THEN d.items
    ELSE IF d.t = "dict"
         THEN IF FromCommonKeys(d.fields) # << >>
              THEN FromCommonKeys(d.fields)
              ELSE FirstListValue(d.fields)
         ELSE << >>

\* item.get("category", "Other") raises on a non-dict; .lower() raises on a
\* category that is no str
ItemRaises(item) == ~item.isdict \/ (item.has /\ ~item.isstr)

RawCategory(item) == IF item.has THEN item.val ELSE Lbl.Other

\* ResolveCategory as it would be if an unmatched label were kept
ResolveCategoryUncoerced(raw, ind, seed) ==
    LET cats  == Categories(ind)
        order == SetOrder(cats, seed)
        low   == Lower(raw)
        hits  == { k \in 1..Len(order) :
                     \/ Lower(order[k]) = low
                     \/ IsSubstring(Lower(order[k]), low) }
    IN  IF raw \in Range(cats) \/ hits = {} THEN raw
        ELSE order[MinOf(hits)]

\* ResolveCategory as it would be without the two .lower()
ResolveCategoryCaseSensitive(raw, ind, seed) ==
    LET cats  == Categories(ind)
        order == SetOrder(cats, seed)
        hits  == { k \in 1..Len(order) :
                     order[k] = raw \/ IsSubstring(order[k], raw) }
    IN  IF raw \in Range(cats) THEN raw
        ELSE IF hits = {} THEN Lbl.Other
        ELSE order[MinOf(hits)]

ResolveCategory(raw, ind, seed) ==
    LET cats  == Categories(ind)
        order == SetOrder(cats, seed)
        low   == Lower(raw)
        hits  == { k \in 1..Len(order) :
                     \/ Lower(order[k]) = low
                     \/ IsSubstring(Lower(order[k]), low) }
    IN  IF raw \in ValidCategories(ind) THEN raw
        ELSE IF hits = {} THEN Lbl.Other
        ELSE order[MinOf(hits)]

\* the loop over classifications: the Counter when it ends, and whether it
\* ended by an exception
RECURSIVE CountItems(_, _, _, _)
CountItems(c, items, ind, seed) ==
    IF items = << >> THEN [ counts |-> c, raised |-> FALSE ]
    ELSE IF ItemRaises(Head(items)) THEN [ counts |-> c, raised |-> TRUE ]
    ELSE CountItems(Inc(c, ResolveCategory(RawCategory(Head(items)), ind, seed)),
                    Tail(items), ind, seed)

\* _classify_single as it would be if its except branch returned the first
\* category of the list
ClassifySingleFirst(outcome, ind) ==
    LET cats   == Categories(ind)
        result == Strip(outcome.text)
        low    == Lower(result)
        hits   == { k \in 1..Len(cats) :
                      \/ Lower(cats[k]) = low
                      \/ IsSubstring(Lower(cats[k]), low) }
    IN  IF outcome.kind = "raise" THEN cats[1]
        ELSE IF hits = {} THEN Lbl.Other
        ELSE cats[MinOf(hits)]

ClassifySingle(outcome, ind) ==
    LET cats   == SingleCategories(ind)
        result == Strip(outcome.text)
        low    == Lower(result)
        hits   == { k \in 1..Len(cats) :
                      \/ Lower(cats[k]) = low
                      \/ IsSubstring(Lower(cats[k]), low) }
    IN  IF outcome.kind = "raise" \/ hits = {} THEN Lbl.Other
        ELSE cats[MinOf(hits)]

Take(s, n) == SubSeq(s, 1, IF Len(s) < n THEN Len(s) ELSE n)

\* the filter of classify_bulk as it would be without .strip()
NonBlankUnstripped(m) == m # << >>

\* if str(m).strip()
NonBlank(m) == Strip(m) # << >>

\* messages[i : i + batch_size]
Batch == SubSeq(limited, i + 1, IF i + BATCH_SIZE < Len(limited) THEN i + BATCH_SIZE ELSE Len(limited))

\* the except branch as it would be if it left the batch after one fragment
FallbackDoneAfterFirst(done, batch) == done >= 1

\* "for msg in batch" of the except branch is over: every fragment of the
\* batch has had its call of _classify_single
FallbackDone(done, batch) == done >= Len(batch)

-----------------------------------------------------------------------------
(* Inputs *)

MaxLen == 2

Fragments == { << >>, << " ", "\t" >>, << " ", "o", "k", "\n" >> }

Blanks(n) == [ k \in 1..n |-> << " " >> ]

Texts(n) == [ k \in 1..n |-> << "h", "i" >> ]

\* a list of more than one batch; lists that reach the cap, their first
\* fragments blank; and short lists
Inputs ==
    { Texts(BATCH_SIZE + 1) }
    \cup { Blanks(p) \o s : p \in { MAX_MESSAGES - 1, MAX_MESSAGES },
                            s \in SeqsUpTo(Fragments, 1) \cup { Texts(2) } }
    \cup SeqsUpTo(Fragments, MaxLen)

-----------------------------------------------------------------------------
(* Python floats: IEEE 754 binary64, round to nearest even.  A positive    *)
(* float is its 53-bit significand m (most significant bit first, m[1] =   *)
(* 1) and an exponent e, its value being m * 2^e.  Only the operations the *)
(* code applies are defined: int / int, float * int, int(float) and        *)
(* round(float, 2), all on values >= 0.                                    *)

MANT_BITS == 53

\* bits handled per step of the long division and multiplication below
CHUNK == 6

FZero == [ z |-> TRUE, m |-> << >>, e |-> 0 ]

RECURSIVE BitsToInt(_)
BitsToInt(bits) ==
    IF bits = << >> THEN 0
    ELSE 2 * BitsToInt(SubSeq(bits, 1, Len(bits) - 1)) + bits[Len(bits)]

RECURSIVE IntToBits(_)
IntToBits(n) == IF n = 0 THEN << >> ELSE IntToBits(n \div 2) \o << n % 2 >>

Zeros(n) == [ k \in 1..n |-> 0 ]

\* the float nearest to bits * 2^e (bits[1] = 1), ties to even
RoundBits(bits, e) ==
    LET L == Len(bits)
    IN  IF L <= MANT_BITS
        THEN [ z |-> FALSE, m |-> bits \o Zeros(MANT_BITS - L), e |-> e - (MANT_BITS - L) ]
        ELSE LET m0     == SubSeq(bits, 1, MANT_BITS)
                 guard  == bits[MANT_BITS + 1]
                 sticky == \E k \in (MANT_BITS + 2)..L : bits[k] = 1
                 up     == guard = 1 /\ (sticky \/ m0[MANT_BITS] = 1)
                 zeros  == { k \in 1..MANT_BITS : m0[k] = 0 }
                 last0  == CHOOSE k \in zeros : \A j \in zeros : j <= k
             IN  IF ~up
                 THEN [ z |-> FALSE, m |-> m0, e |-> e + (L - MANT_BITS) ]
                 ELSE IF zeros = {}
                 THEN [ z |-> FALSE, m |-> << 1 >> \o Zeros(MANT_BITS - 1),
                        e |-> e + (L - MANT_BITS) + 1 ]
                 ELSE [ z |-> FALSE,
                        m |-> [ k \in 1..MANT_BITS |->
                                  IF k < last0 THEN m0[k] ELSE IF k = last0 THEN 1 ELSE 0 ],
                        e |-> e + (L - MANT_BITS) ]

\* the w-bit binary numeral of v
FixedBits(v, w) == [ k \in 1..w |-> (v \div 2^(w - k)) % 2 ]

\* n more bits of the quotient r / b (r < b), and the remainder left; the
\* bits are produced CHUNK at a time
RECURSIVE DivBits(_, _, _)
DivBits(r, b, n) ==
    IF n = 0 THEN [ bits |-> << >>, rem |-> r ]
    ELSE LET w    == IF n < CHUNK THEN n ELSE CHUNK
             rest == DivBits((r * 2^w) % b, b, n - w)
         IN  [ bits |-> FixedBits((r * 2^w) \div b, w) \o rest.bits, rem |-> rest.rem ]

\* the k with 2^k <= a / b < 2^(k+1), for a, b > 0
RECURSIVE Log2Ratio(_, _)
Log2Ratio(a, b) ==
    IF a < b THEN Log2Ratio(2 * a, b) - 1
    ELSE IF a >= 2 * b THEN Log2Ratio(a, 2 * b) + 1
    ELSE 0

\* a / b for two int, a >= 0, b > 0
FDiv(a, b) ==
    IF a = 0 THEN FZero
    ELSE LET k  == Log2Ratio(a, b)
             aa == IF k < 0 THEN a * 2^(0 - k) ELSE a
             bb == IF k > 0 THEN b * 2^k ELSE b
             q  == DivBits(aa - bb, bb, MANT_BITS)
         IN  RoundBits(<< 1 >> \o q.bits \o << IF q.rem = 0 THEN 0 ELSE 1 >>,
                       k - (MANT_BITS + 1))

\* the bits of m * c, from the least significant bit k of m upwards, CHUNK
\* bits of m at a time
RECURSIVE MulAcc(_, _, _, _, _)
MulAcc(m, k, c, carry, acc) ==
    IF k = 0 THEN IntToBits(carry) \o acc
    ELSE LET w == IF k < CHUNK THEN k ELSE CHUNK
             d == BitsToInt(SubSeq(m, k - w + 1, k)) * c + carry
         IN  MulAcc(m, k - w, c, d \div 2^w, FixedBits(d % 2^w, w) \o acc)

\* x * c for a float x and an int c > 0
FMulInt(x, c) ==
    IF x.z THEN FZero ELSE RoundBits(MulAcc(x.m, MANT_BITS, c, 0, << >>), x.e)

\* int(x)
FTrunc(x) ==
    IF x.z \/ MANT_BITS + x.e <= 0 THEN 0
    ELSE BitsToInt(SubSeq(x.m \o Zeros(IF x.e > 0 THEN x.e ELSE 0), 1, MANT_BITS + x.e))

\* round(x, 2), in hundredths: the exact value of x * 100 rounded half to even
Hundredths(x) ==
    IF x.z THEN 0
    ELSE LET p    == MulAcc(x.m, MANT_BITS, 100, 0, << >>)
             n    == Len(p) + x.e
             int  == IF n <= 0 THEN 0 ELSE BitsToInt(SubSeq(p, 1, n))
             half == IF n < 0 THEN 0 ELSE p[n + 1]
             rest == \E k \in (IF n < 0 THEN 1 ELSE n + 2)..Len(p) : p[k] = 1
         IN  IF half = 1 /\ (rest \/ int % 2 = 1) THEN int + 1 ELSE int

\* round(x, 2): the float nearest to that decimal
FRound2(x) == FDiv(Hundredths(x), 100)

\* 2 * x, exactly
FTwice(x) == IF x.z THEN x ELSE [ x EXCEPT !.e = @ + 1 ]

-----------------------------------------------------------------------------
(* audit_files: savings and automation score *)

MINUTES_PER_MESSAGE == 8
HOURLY_RATE == 300
MONTHS == 12

AUTOMATABLE_CATEGORIES ==
    << Lbl.OrderStatus, Lbl.RefundReturn, Lbl.PaymentIssue, Lbl.ShippingDelivery,
       Lbl.BillingInquiry, Lbl.TechnicalSupport, Lbl.AccountAccess,
       Lbl.LeaveRequest, Lbl.PayrollQuery, Lbl.BenefitsInquiry,
       Lbl.AccessPermissions, Lbl.PasswordReset, Lbl.SoftwareIssue,
       Lbl.NewLead, Lbl.DemoRequest, Lbl.FollowUp >>

\* sum(count for cat, count in category_counts.items() if cat in automatable_categories)
AutomatableCount(c) ==
    SumOver(c, { k \in DOMAIN c : k \in Range(AUTOMATABLE_CATEGORIES) })

\* the percentage as it would be with round() in place of int()
PercentRounded(a, t) == (200 * a + t) \div (2 * t)

\* int(a / t * 100)
Percent(a, t) == FTrunc(FMulInt(FDiv(a, t), 100))

\* the score as it would be without "if total_messages > 0": -1 stands for
\* the ZeroDivisionError
AutomationScoreUnguarded(a, t) ==
    IF t = 0 THEN -1
    ELSE IF Percent(a, t) < 100 THEN Percent(a, t) ELSE 100

\* min(int((automatable_count / total_messages * 100)), 100) if total_messages > 0 else 0
AutomationScore(a, t) ==
    IF t > 0
    THEN IF Percent(a, t) < 100 THEN Percent(a, t) ELSE 100
    ELSE 0

\* the hours as they would be with // in place of /
HoursSavedMonthlyFloorDiv(t) == FDiv((t * MINUTES_PER_MESSAGE) \div 60, 1)

\* (total_messages * minutes_per_message) / 60
HoursSavedMonthly(t) == FDiv(t * MINUTES_PER_MESSAGE, 60)

Savings(t) ==
    LET hours == HoursSavedMonthly(t)
        money == FMulInt(hours, HOURLY_RATE)
    IN  [ hours_saved_monthly |-> hours,
          money_saved_monthly |-> money,
          annual_hours_saved  |-> FMulInt(hours, MONTHS),
          annual_money_saved  |-> FMulInt(money, MONTHS) ]

NoSavings ==
    [ hours_saved_monthly |-> FZero, money_saved_monthly |-> FZero,
      annual_hours_saved  |-> FZero, annual_money_saved  |-> FZero ]

-----------------------------------------------------------------------------
(* savings_calculator *)

\* round((issue_count * minutes_per_email) / 60, 2)
estimate_hours_saved(n) == FRound2(FDiv(n * MINUTES_PER_MESSAGE, 60))

\* int(hours * hourly_salary)
estimate_money_saved(hours) == FTrunc(FMulInt(hours, HOURLY_RATE))

-----------------------------------------------------------------------------
(* generate_recommendations.  A Counter is kept here with its insertion   *)
(* order, a list of (category, count) pairs, because most_common breaks    *)
(* ties by it.                                                             *)

Pair(cat, n) == [ cat |-> cat, count |-> n ]

RECURSIVE SumCounts(_)
SumCounts(oc) == IF oc = << >> THEN 0 ELSE Head(oc).count + SumCounts(Tail(oc))

\* category_counts.most_common(n): by count, largest first, equal counts in
\* insertion order
MostCommon(oc, n) ==
    LET Before(j, k) == oc[j].count > oc[k].count \/ (oc[j].count = oc[k].count /\ j < k)
        Rank(k) == Cardinality({ j \in 1..Len(oc) : Before(j, k) }) + 1
        m == IF Len(oc) < n THEN Len(oc) ELSE n
    IN  [ r \in 1..m |-> oc[CHOOSE k \in 1..Len(oc) : Rank(k) = r] ]

TOP_N == 5
MAX_RECOMMENDATIONS == 7
DEPLOY_ABOVE == 15
CONSIDER_ABOVE == 5

\* the sentences of the rule-based fallback
Deploy(cat, pct, n) ==
    [ type |-> "str", kind |-> "deploy", cat |-> cat, pct |-> pct, count |-> n,
      hours |-> (n * MINUTES_PER_MESSAGE) \div 60 ]

Consider(cat, pct) ==
    [ type |-> "str", kind |-> "consider", cat |-> cat, pct |-> pct ]

GENERIC_RECOMMENDATION == [ type |-> "str", kind |-> "generic" ]

\* the fallback loop as it would be with "pct >= 15"
FallbackSentenceInclusive(p, total) ==
    LET pct == Percent(p.count, total)
    IN  IF pct >= DEPLOY_ABOVE THEN << Deploy(p.cat, pct, p.count) >>
        ELSE IF pct > CONSIDER_ABOVE THEN << Consider(p.cat, pct) >>
        ELSE << >>

\* one turn of the fallback loop: what it appends
FallbackSentence(p, total) ==
    LET pct == Percent(p.count, total)
    IN  IF pct > DEPLOY_ABOVE THEN << Deploy(p.cat, pct, p.count) >>
        ELSE IF pct > CONSIDER_ABOVE THEN << Consider(p.cat, pct) >>
        ELSE << >>

RECURSIVE FallbackLoop(_, _)
FallbackLoop(top, total) ==
    IF top = << >> THEN << >>
    ELSE FallbackSentence(Head(top), total) \o FallbackLoop(Tail(top), total)

FallbackRecommendations(top, total) ==
    IF FallbackLoop(top, total) = << >>
    THEN << GENERIC_RECOMMENDATION >>
    ELSE FallbackLoop(top, total)

\* what the completion of generate_recommendations can be
AiText(k)  == [ type |-> "str", kind |-> "ai", no |-> k ]
AiNumber   == [ type |-> "int" ]
AiObject   == [ type |-> "dict" ]

MaxRecs == 8

RecLists ==
    { [ k \in 1..n |-> AiText(k) ] \o << >> : n \in 0..MaxRecs }
    \cup { << AiNumber >>, << AiText(1), AiObject >> }

\* kind: "raise" the request fails; "none" the content is None; "text" the
\* content is no JSON; "fence" the content is a code fence with no line
\* break; "json" the content, code fence removed, parses
RecOutcomes ==
    { [ kind |-> k, islist |-> FALSE, list |-> << >> ] :
        k \in { "raise", "none", "text", "fence", "json" } }
    \cup { [ kind |-> "json", islist |-> TRUE, list |-> l ] : l \in RecLists }

\* the try block and what follows it
Recommend(top, total, outcome) ==
    IF outcome.kind = "json" /\ outcome.islist
    THEN [ path |-> "ai", list |-> Take(outcome.list, MAX_RECOMMENDATIONS) ]
    ELSE [ path |-> "fallback", list |-> FallbackRecommendations(top, total) ]

\* the findings text divides by total_messages for every top category
FindingsRaise(top, total) == top # << >> /\ total = 0

MaxMsgs == 19

RecLabels ==
    << Lbl.OrderStatus, Lbl.RefundReturn, Lbl.PaymentIssue, Lbl.BillingInquiry,
       Lbl.TechnicalSupport, Lbl.Other >>

\* more categories than any share above CONSIDER_ABOVE percent allows
ManyLabels ==
    << Lbl.OrderStatus, Lbl.RefundReturn, Lbl.PaymentIssue, Lbl.SalesLead,
       Lbl.VendorCommunication, Lbl.HRAdmin, Lbl.CustomerComplaint,
       Lbl.TechnicalSupport, Lbl.BillingInquiry, Lbl.Other, Lbl.ShippingDelivery,
       Lbl.ProductInquiry, Lbl.InventoryStock, Lbl.PricingDiscount,
       Lbl.AccountIssue, Lbl.AccountAccess, Lbl.TechnicalIssue,
       Lbl.FeatureRequest, Lbl.BugReport, Lbl.ComplaintEscalation,
       Lbl.GeneralInquiry >>

ManyCategories(first, second) ==
    [ k \in 1..Len(ManyLabels) |->
        Pair(ManyLabels[k], IF k = 1 THEN first ELSE IF k = 2 THEN second ELSE 1) ]

\* Counters of one and of two categories with every count up to MaxMsgs,
\* Counters of more categories than TOP_N with small counts
RecCounters ==
    { << >> }
    \cup { << Pair(RecLabels[1], a) >> : a \in 1..MaxMsgs }
    \cup { << Pair(RecLabels[1], a), Pair(RecLabels[2], b) >> :
             a \in 1..MaxMsgs, b \in 1..MaxMsgs }
    \cup { [ k \in 1..(TOP_N + 1) |-> Pair(RecLabels[k], c[k]) ] :
             c \in [ 1..(TOP_N + 1) -> { 1, 2 } ] }
    \cup { ManyCategories(1, 1), ManyCategories(6, 3) }

IdleRecommend ==
    /\ rec_pc = "idle"
    /\ category_counts = << >>
    /\ top_categories = << >>
    /\ recommendations = << >>
    /\ rec_path = "none"

-----------------------------------------------------------------------------
(* main.py: the /audit request, from rate_limit_middleware to the response, *)
(* and the /audit handler of app.py.  One request is followed; the uploads  *)
(* directory, the stored report and the rate-limit lists start as earlier   *)
(* requests can have left them.                                             *)

MAX_FILE_SIZE_MB == 10
MAX_TOTAL_SIZE_MB == 50
MAX_FILES_PER_REQUEST == 10
MAX_REQUESTS_PER_MINUTE == 10
WINDOW == 60
MB == 1024 * 1024

ALLOWED_EXTENSIONS ==
    { <<".", "c", "s", "v">>, <<".", "x", "l", "s", "x">>,
      <<".", "x", "l", "s">>, <<".", "p", "d", "f">>, <<".", "t", "x", "t">>,
      <<".", "p", "n", "g">>, <<".", "j", "p", "g">>,
      <<".", "j", "p", "e", "g">>, <<".", "g", "i", "f">>,
      <<".", "b", "m", "p">>, <<".", "e", "m", "l">> }

BLOCKED_EXTENSIONS ==
    { <<".", "e", "x", "e">>, <<".", "b", "a", "t">>, <<".", "c", "m", "d">>,
      <<".", "s", "h">>, <<".", "p", "s", "1">>, <<".", "d", "l", "l">>,
      <<".", "s", "o">>, <<".", "p", "y">>, <<".", "j", "s">>,
      <<".", "p", "h", "p">>, <<".", "r", "b">>, <<".", "j", "a", "r">>,
      <<".", "m", "s", "i">> }

DANGEROUS_TYPES ==
    { "application/x-executable", "application/x-msdownload", "application/javascript" }

NoContentType == "None"

Digits == { "0", "1", "2", "3", "4", "5", "6", "7", "8", "9" }

\* \w of the regular expression, for ASCII file names
WordChars ==
    DOMAIN UpperToLower \cup { UpperToLower[c] : c \in DOMAIN UpperToLower }
    \cup Digits \cup { "_" }

\* os.path.splitext(name)[1] of a name without directory part: from the
\* last dot on, unless only dots come before it
SplitExt(name) ==
    LET dots == { k \in 1..Len(name) : name[k] = "." }
        last == CHOOSE k \in dots : \A m \in dots : m <= k
    IN  IF dots = {} THEN << >>
        ELSE IF \A j \in 1..(last - 1) : name[j] = "." THEN << >>
        ELSE SubSeq(name, last, Len(name))

EndsWith(s, suffix) ==
    /\ Len(suffix) <= Len(s)
    /\ SubSeq(s, Len(s) - Len(suffix) + 1, Len(s)) = suffix

\* validate_file as it would be without its extension checks
validate_file_any_extension(file) ==
    IF file.filename = << >> THEN [ ok |-> FALSE, reason |-> "File has no name" ]
    ELSE IF file.content_type # NoContentType /\ file.content_type \in DANGEROUS_TYPES
    THEN [ ok |-> FALSE, reason |-> "Content type is not allowed" ]
    ELSE [ ok |-> TRUE, reason |-> "OK" ]

validate_file(file) ==
    LET ext == Lower(SplitExt(file.filename))
    IN  IF file.filename = << >> THEN [ ok |-> FALSE, reason |-> "File has no name" ]
        ELSE IF ext \in BLOCKED_EXTENSIONS
        THEN [ ok |-> FALSE, reason |-> "File type is blocked for security reasons" ]
        ELSE IF ext \notin ALLOWED_EXTENSIONS
        THEN [ ok |-> FALSE, reason |-> "File type is not supported" ]
        ELSE IF file.content_type # NoContentType /\ file.content_type \in DANGEROUS_TYPES
        THEN [ ok |-> FALSE, reason |-> "Content type is not allowed" ]
        ELSE [ ok |-> TRUE, reason |-> "OK" ]

\* check_file_size: size_bytes / (1024 * 1024) > MAX_FILE_SIZE_MB, a
\* division by a power of two
check_file_size(size_bytes) == ~ (size_bytes > MAX_FILE_SIZE_MB * MB)

\* sanitize_filename without its random prefix
RECURSIVE LStripDots(_)
LStripDots(s) ==
    IF s # << >> /\ Head(s) = "." THEN LStripDots(Tail(s)) ELSE s

sanitize_filename(name) ==
    LET kept == SelectSeq(name, LAMBDA c : c \notin { "/", "\\" })
        safe == [ k \in 1..Len(kept) |->
                    IF kept[k] \in WordChars \cup { "-", "." } THEN kept[k] ELSE "_" ]
    IN  IF LStripDots(safe) = << >> THEN << "t", "m", "p" >> ELSE LStripDots(safe)

\* os.path.join(UPLOAD_FOLDER, safe_name): uuid stands for the random
\* prefix, which no two files of the directory share
PathOf(uuid, name) == [ uuid |-> uuid, name |-> sanitize_filename(name) ]

UNSUPPORTED_FRAGMENT ==
    << "U", "n", "s", "u", "p", "p", "o", "r", "t", "e", "d" >>

Ext(s) == << "." >> \o s

\* parse_file: the reader an extension is dispatched to returns the lines
\* it extracts, or [] when it fails
parse_file(path, outcome) ==
    LET file_lower == Lower(path.name)
        read == IF outcome.kind = "fails" THEN << >> ELSE outcome.lines
        readers == { Ext(<< "c", "s", "v" >>), Ext(<< "x", "l", "s", "x" >>),
                     Ext(<< "x", "l", "s" >>), Ext(<< "p", "d", "f" >>),
                     Ext(<< "p", "n", "g" >>), Ext(<< "j", "p", "g" >>),
                     Ext(<< "j", "p", "e", "g" >>), Ext(<< "g", "i", "f" >>),
                     Ext(<< "b", "m", "p" >>), Ext(<< "t", "x", "t" >>) }
    IN  IF \E e \in readers : EndsWith(file_lower, e)
        THEN [ raised |-> FALSE, messages |-> read ]
        ELSE [ raised |-> FALSE, messages |-> << UNSUPPORTED_FRAGMENT >> ]

ParseOutcomes ==
    { [ kind |-> "fails", lines |-> << >> ],
      [ kind |-> "lines", lines |-> << >> ],
      [ kind |-> "lines", lines |-> Texts(1) ] }

\* exceptions
HttpError(status, detail) == [ kind |-> "http", status |-> status, detail |-> detail ]
Failure(text) == [ kind |-> "error", status |-> 0, detail |-> text ]

ExceptionTexts == { "[Errno 28] No space left on device" }

GENERIC_DETAIL == "An internal error occurred. Please try again."

\* the handler boundary of app.py: detail=str(e)
AppBoundary(e) == HttpError(500, e.detail)

\* the handler boundary of main.py as it would be with detail=str(e)
BoundaryVerbose(e) ==
    IF e.kind = "http" THEN e ELSE HttpError(500, e.detail)

\* the handler boundary of main.py: HTTPException is raised again, every
\* other exception becomes the generic 500
Boundary(e) ==
    IF e.kind = "http" THEN e ELSE HttpError(500, GENERIC_DETAIL)

NoReport == [ status |-> "none" ]

ErrorResponse(e) == [ status |-> e.status, detail |-> e.detail, body |-> NoReport ]

\* the function Counter of an ordered one
CountsOf(oc) ==
    [ c \in { oc[k].cat : k \in 1..Len(oc) } |->
        oc[CHOOSE k \in 1..Len(oc) : oc[k].cat = c].count ]

\* audit_report before the PDF step
AuditReport(nfiles, ind, oc, recs) ==
    [ status |-> "success",
      industry |-> ind,
      files_analyzed |-> nfiles,
      total_messages_analyzed |-> SumCounts(oc),
      savings |-> Savings(SumCounts(oc)),
      automation_score |-> AutomationScore(AutomatableCount(CountsOf(oc)), SumCounts(oc)),
      category_breakdown |-> CountsOf(oc),
      recommendations |-> recs,
      pdf_available |-> "unset" ]

\* the PDF step as it would be without its try block
AfterPdfUncaught(rep, outcome) ==
    IF outcome = "ok"
    THEN [ status |-> 200, detail |-> "", body |-> [ rep EXCEPT !.pdf_available = TRUE ] ]
    ELSE ErrorResponse(Boundary(Failure("pdf")))

\* the PDF step and the return of audit_report
AfterPdf(rep, outcome) ==
    [ status |-> 200, detail |-> "",
      body |-> [ rep EXCEPT !.pdf_available = (outcome = "ok") ] ]

\* the finally block as it would be without os.remove
RemovePathSkipped(dir, path, outcome) == dir

\* the finally block: os.remove(path), a failure of which is ignored
RemovePath(dir, path, outcome) ==
    IF outcome = "ok" THEN dir \ { path } ELSE dir

\* request_counts[client_ip] after "Clean old entries"
Recent(stamps, t) == SelectSeq(stamps, LAMBDA s : t - s < WINDOW)

\* the test of the middleware as it would be with ">"
OverLimitStrict(recent) == Len(recent) > MAX_REQUESTS_PER_MINUTE

\* len(request_counts[client_ip]) >= MAX_REQUESTS_PER_MINUTE
OverLimit(recent) == Len(recent) >= MAX_REQUESTS_PER_MINUTE

\* the list as it would be if the 429 branch recorded the request too
DeniedRecorded(recent, t) == Append(recent, t)

\* request_counts[client_ip] when the middleware returns the 429 answer:
\* the cleaned list, nothing appended
Denied(recent, t) == recent

\* request_counts[client_ip].append(now)
Admitted(recent, t) == Append(recent, t)

\* the uploads of a request
File(name, ctype, size) == [ filename |-> name, content_type |-> ctype, size |-> size ]

Name(stem, ext) == << stem, "." >> \o ext

GoodFile == File(Name("a", << "t", "x", "t" >>), "text/plain", 1)

AtLimitFile == File(Name("b", << "c", "s", "v" >>), "text/csv", MAX_FILE_SIZE_MB * MB)

OversizedFile == File(Name("c", << "t", "x", "t" >>), "text/plain", MAX_FILE_SIZE_MB * MB + 1)

BlockedFile == File(Name("d", << "E", "x", "e" >>), "text/plain", 1)

FileKinds ==
    { GoodFile, AtLimitFile, OversizedFile, BlockedFile,
      File(Name("e", << "e", "x", "e" >>), "application/x-msdownload", 1),
      File(Name("f", << "z", "i", "p" >>), "application/zip", 1),
      File(Name("g", << "t", "x", "t" >>), "application/javascript", 1),
      File(Name("h", << "e", "m", "l" >>), NoContentType, 1),
      File(<< >>, "text/plain", 1) }

CoreKinds == { GoodFile, OversizedFile, BlockedFile }

MaxFiles == 2

\* one file of every kind, alone and after a good file; short lists of the
\* core kinds; one file more than the count ceiling; files at the size
\* ceiling that together pass the aggregate ceiling
AuditInputs ==
    { << k >> : k \in FileKinds }
    \cup { << GoodFile, k >> : k \in FileKinds }
    \cup SeqsUpTo(CoreKinds, MaxFiles)
    \cup { [ k \in 1..(MAX_FILES_PER_REQUEST + 1) |-> GoodFile ],
           [ k \in 1..((MAX_TOTAL_SIZE_MB \div MAX_FILE_SIZE_MB) + 1) |-> AtLimitFile ] }

AppInputs == SeqsUpTo({ GoodFile }, MaxFiles)

Clients == { "10.0.0.1", "10.0.0.2" }

T0 == 1000

\* n timestamps, the first of them just outside the window at T0
Stamps(n) == [ k \in 1..n |-> T0 - WINDOW + k - 1 ]

OldPath == [ uuid |-> 0, name |-> << "o", "l", "d" >> ]

\* the shared state a request can find: nothing yet; a file an earlier
\* request left, an earlier report, and a client one request below the
\* limit; the same with the client at the limit
Worlds ==
    { [ uploads |-> {}, report |-> "none",
        request_counts |-> [ c \in Clients |-> << >> ] ],
      [ uploads |-> { OldPath }, report |-> "earlier",
        request_counts |-> [ c \in Clients |->
            IF c = "10.0.0.1" THEN Stamps(MAX_REQUESTS_PER_MINUTE)
                              ELSE SubSeq(Stamps(2), 2, 2) ] ],
      [ uploads |-> { OldPath }, report |-> "earlier",
        request_counts |-> [ c \in Clients |->
            IF c = "10.0.0.1" THEN Tail(Stamps(MAX_REQUESTS_PER_MINUTE + 1))
                              ELSE << >> ] ] }

\* the Counters classify_bulk returns for the request
AuditCounters ==
    { << >>, << Pair(Lbl.Other, 1) >>, << Pair(Lbl.OrderStatus, 1) >>,
      << Pair(Lbl.OrderStatus, 2), Pair(Lbl.Other, 1) >> }

AuditRecOutcomes ==
    { o \in RecOutcomes : o.kind = "raise" \/ (o.islist /\ Len(o.list) = 1) }

\* environment faults of one request: at most MaxFaults of them
MaxFaults == 1

Fault(what, at) == [ what |-> what, at |-> at ]

NoResponse == [ status |-> 0, detail |-> "", body |-> NoReport ]

IdleHttp ==
    /\ app = "none"
    /\ client = "none"
    /\ files = << >>
    /\ now = T0
    /\ before = [ uploads |-> {}, report |-> "none", request_counts |-> << >> ]
    /\ request_counts = << >>
    /\ uploads = {}
    /\ report = "none"
    /\ req_pc = "idle"
    /\ file_no = 0
    /\ saved_paths = << >>
    /\ total_size = 0
    /\ uploaded_files = << >>
    /\ all_messages = << >>
    /\ parsedFiles = {}
    /\ created = {}
    /\ classifyCalls = 0
    /\ faults = {}
    /\ audit_report = NoReport
    /\ pending = NoResponse
    /\ response = NoResponse
    /\ cleaned = 0

\* no decision of the middleware yet
NoDecision == [ client |-> "none", status |-> 0, young |-> 0, after |-> 0, handed |-> 0 ]

IdleRate ==
    /\ passed = << >>
    /\ inflight = << >>
    /\ rejected = << >>
    /\ decision = NoDecision
    /\ sent = 0

NoSummary ==
    [ total_messages |-> 0, category_breakdown |-> << >>,
      top_opportunities |-> << >>, automation_score |-> 0 ]

IdleTable ==
    /\ audit_data = NoSummary
    /\ table_data = << >>
    /\ pdf_pc = "idle"

\* no download yet
NoDownload == [ status |-> 0, report |-> "none" ]

IdleLater == IdleRate /\ IdleTable /\ served = NoDownload

-----------------------------------------------------------------------------
(* A classification request: classify_bulk and classify_batch step by      *)
(* step, then the figures audit_files derives from the Counter             *)

IdleDecode ==
    /\ data = JScalar
    /\ classifications = << >>
    /\ item_no = 0
    /\ raw_category = << >>
    /\ category = << >>

IdleAudit ==
    /\ total_messages = 0
    /\ automatable_count = 0
    /\ automation_score = 0
    /\ savings = NoSavings

IdleEstimate ==
    /\ issue_count = 0
    /\ est_pc = "idle"
    /\ est_hours = FZero
    /\ est_money = 0

IdleTaxonomy ==
    /\ promptCategories = NoCategories
    /\ validCategories = NoValidCategories
    /\ singleCategories = NoCategories


Init ==
    /\ messages \in Inputs
    /\ industry \in Industries
    /\ hashSeed \in HashSeeds
    /\ pc = "start"
    /\ limited = << >>
    /\ i = 0
    /\ fb = 0
    /\ counts = EmptyCounter
    /\ outstanding = 0
    /\ apiCalls = 0
    /\ batchBase = EmptyCounter
    /\ batchSize = 0
    /\ batchCause = "none"
    /\ fbRaised = 0
    /\ IdleDecode
    /\ IdleAudit
    /\ IdleEstimate
    /\ IdleTaxonomy
    /\ IdleRecommend
    /\ IdleHttp
    /\ IdleLater

\* classify_bulk, and the entry of classify_batch
Start ==
    /\ pc = "start"
    /\ limited' = SelectSeq(Take(messages, MAX_MESSAGES), NonBlank)
    /\ IF limited' = << >>
       THEN /\ counts' = [ k \in { Lbl.Other } |-> 1 ]
            /\ pc' = "classified"
       ELSE /\ counts' = EmptyCounter
            /\ pc' = "batch"
    /\ i' = 0
    /\ UNCHANGED << inputVars, fb, outstanding, apiCalls, batchBase, batchSize,
                    batchCause, fbRaised, decodeVars, auditVars, estVars,
                    taxVars, restVars >>

\* the loop head and the completion request of one batch
BatchCall ==
    /\ pc = "batch"
    /\ outstanding' = outstanding + 1
    /\ apiCalls' = apiCalls + 1
    /\ batchBase' = counts
    /\ batchSize' = Len(Batch)
    /\ batchCause' = "running"
    /\ fbRaised' = 0
    /\ pc' = "await_batch"
    /\ promptCategories' = PromptCategories(industry)
    /\ UNCHANGED << inputVars, limited, i, fb, counts, decodeVars, auditVars,
                    estVars, validCategories, singleCategories, restVars >>

\* where the loop goes when a batch is finished
AfterBatch ==
    /\ i' = i + BATCH_SIZE
    /\ pc' = IF i + BATCH_SIZE < Len(limited) THEN "batch" ELSE "classified"

\* the batch call returns: the rest of the try block
BatchReturn(outcome) ==
    /\ outstanding' = outstanding - 1
    /\ IF outcome.kind = "json"
       THEN LET cls == ExtractClassifications(outcome.data)
                r   == CountItems(counts, cls, industry, hashSeed)
            IN  /\ counts' = r.counts
                /\ validCategories' = ValidCategories(industry)
                /\ IF r.raised
                   THEN /\ batchCause' = "item_failed"
                        /\ pc' = "fallback"
                        /\ i' = i
                   ELSE /\ batchCause' = "ok"
                        /\ AfterBatch
       ELSE /\ counts' = counts
            /\ validCategories' = validCategories
            /\ batchCause' = IF outcome.kind = "raise" THEN "call_failed"
                                                       ELSE "parse_failed"
            /\ pc' = "fallback"
            /\ i' = i
    /\ fb' = 0
    /\ UNCHANGED << inputVars, limited, apiCalls, batchBase, batchSize,
                    fbRaised, decodeVars, auditVars, estVars, promptCategories,
                    singleCategories, restVars >>

\* the except branch: the request of _classify_single for the next fragment
SingleCall ==
    /\ pc = "fallback"
    /\ outstanding' = outstanding + 1
    /\ apiCalls' = apiCalls + 1
    /\ pc' = "await_single"
    /\ singleCategories' = SingleCategories(industry)
    /\ UNCHANGED << inputVars, limited, i, fb, counts, batchBase, batchSize,
                    batchCause, fbRaised, decodeVars, auditVars, estVars,
                    promptCategories, validCategories, restVars >>

\* _classify_single returns and its category is counted
SingleReturn(outcome) ==
    /\ outstanding' = outstanding - 1
    /\ counts' = Inc(counts, ClassifySingle(outcome, industry))
    /\ fbRaised' = IF outcome.kind = "raise" THEN fbRaised + 1 ELSE fbRaised
    /\ fb' = fb + 1
    /\ IF FallbackDone(fb + 1, Batch)
       THEN AfterBatch
       ELSE /\ pc' = "fallback"
            /\ i' = i
    /\ UNCHANGED << inputVars, limited, apiCalls, batchBase, batchSize,
                    batchCause, decodeVars, auditVars, estVars, taxVars,
                    restVars >>

\* audit_files, from the return of classify_bulk to the automation score
\* (it calls classify_bulk only with a non-empty all_messages)
Score ==
    /\ pc = "classified"
    /\ messages # << >>
    /\ total_messages' = Total(counts)
    /\ savings' = Savings(Total(counts))
    /\ automatable_count' = AutomatableCount(counts)
    /\ automation_score' = AutomationScore(AutomatableCount(counts), Total(counts))
    /\ pc' = "scored"
    /\ UNCHANGED << inputVars, counts, batchVars, decodeVars, estVars, taxVars,
                    restVars >>

Next ==
    \/ Start
    \/ BatchCall
    \/ pc = "await_batch" /\ \E outcome \in BatchOutcomes(batchSize) : BatchReturn(outcome)
    \/ SingleCall
    \/ pc = "await_single" /\ \E outcome \in SingleOutcomes : SingleReturn(outcome)
    \/ Score

Spec == Init /\ [][Next]_vars

-----------------------------------------------------------------------------
(* Decoding one batch response: the body of the try block after            *)
(* json.loads, one item per step                                           *)

MaxFields == 2

DecodeLabels ==
    { Lbl.OrderStatus, Lbl.NewLead, Lbl.Other, Txt.lower_order, Txt.wrapped_refund,
      Txt.two_labels, Txt.two_sales, Txt.spam, Txt.empty, Txt.upper_other,
      Txt.padded_other }

DecodeItems == { Obj(s) : s \in DecodeLabels } \cup { ObjNoCat, ObjNullCat, NotDict }

FieldKeys == { "results", "items", "output" }

FieldsOf(key) ==
    { FList(key, << Obj(Lbl.OrderStatus) >>), FList(key, << Obj(Lbl.NewLead) >>),
      FList(key, << >>), FScalar(key), FNested(key, << Obj(Lbl.OrderStatus) >>) }

\* the objects of at most MaxFields fields, no key twice
Objects ==
    { fs \in SeqsUpTo(UNION { FieldsOf(k) : k \in FieldKeys }, MaxFields) :
        \A a, b \in 1..Len(fs) : a # b => fs[a].key # fs[b].key }

DecodeData ==
    { JScalar }
    \cup { JList(s) : s \in SeqsUpTo(DecodeItems, 1) \cup SeqsUpTo(Items, MaxItems) }
    \cup { JDict(fs) : fs \in Objects }

InitDecode ==
    /\ messages = Texts(1)
    /\ industry \in Industries
    /\ hashSeed \in AllSeeds
    /\ pc = "parsed"
    /\ limited = Texts(1)
    /\ i = 0
    /\ fb = 0
    /\ counts = EmptyCounter
    /\ outstanding = 0
    /\ apiCalls = 1
    /\ batchBase = EmptyCounter
    /\ batchSize = 1
    /\ batchCause = "running"
    /\ fbRaised = 0
    /\ data \in DecodeData
    /\ classifications = << >>
    /\ item_no = 0
    /\ raw_category = << >>
    /\ category = << >>
    /\ IdleAudit
    /\ IdleEstimate
    /\ promptCategories = PromptCategories(industry)
    /\ validCategories = NoValidCategories
    /\ singleCategories = NoCategories
    /\ IdleRecommend
    /\ IdleHttp
    /\ IdleLater

\* "Identify the list of classifications"
Extract ==
    /\ pc = "parsed"
    /\ classifications' = ExtractClassifications(data)
    /\ pc' = IF classifications' = << >> THEN "resolved" ELSE "resolving"
    /\ validCategories' = ValidCategories(industry)
    /\ UNCHANGED << inputVars, counts, batchVars, data, item_no, raw_category,
                    category, auditVars, estVars, promptCategories,
                    singleCategories, restVars >>

\* one turn of "for item in classifications"
ResolveItem ==
    /\ pc = "resolving"
    /\ LET item == classifications[item_no + 1]
       IN  IF ItemRaises(item)
           THEN /\ pc' = "raised"
                /\ UNCHANGED << counts, item_no, raw_category, category >>
           ELSE /\ raw_category' = RawCategory(item)
                /\ category' = ResolveCategory(RawCategory(item), industry, hashSeed)
                /\ counts' = Inc(counts, category')
                /\ item_no' = item_no + 1
                /\ pc' = IF item_no + 1 < Len(classifications) THEN "resolving"
                                                               ELSE "resolved"
    /\ UNCHANGED << inputVars, batchVars, data, classifications, auditVars,
                    estVars, taxVars, restVars >>

NextDecode == Extract \/ ResolveItem

SpecDecode == InitDecode /\ [][NextDecode]_vars

-----------------------------------------------------------------------------
(* The estimates: audit_files on a Counter classify_bulk returned, and a   *)
(* run of the savings calculator on a message count                        *)

MaxCount == 29
MaxIssueCount == 60

\* a Counter holds no key it never counted
CounterOf(a, b) ==
    [ k \in { x \in { Lbl.OrderStatus, Lbl.Other } :
                (x = Lbl.OrderStatus /\ a > 0) \/ (x = Lbl.Other /\ b > 0) } |->
        IF k = Lbl.OrderStatus THEN a ELSE b ]

InitEstimate ==
    /\ messages = Texts(1)
    /\ industry = "general"
    /\ hashSeed = 0
    /\ limited = Texts(1)
    /\ i = BATCH_SIZE
    /\ fb = 0
    /\ outstanding = 0
    /\ apiCalls = 1
    /\ batchBase = EmptyCounter
    /\ batchSize = 1
    /\ batchCause = "ok"
    /\ fbRaised = 0
    /\ IdleDecode
    /\ IdleAudit
    /\ IdleTaxonomy
    /\ IdleRecommend
    /\ IdleHttp
    /\ IdleLater
    /\ est_hours = FZero
    /\ est_money = 0
    /\ \/ /\ pc = "classified"
          /\ counts \in { CounterOf(a, b) : a \in 0..MaxCount, b \in 0..MaxCount }
          /\ issue_count = 0
          /\ est_pc = "idle"
       \/ /\ pc = "idle"
          /\ counts = EmptyCounter
          /\ issue_count \in 0..MaxIssueCount
          /\ est_pc = "start"

EstimateHours ==
    /\ est_pc = "start"
    /\ est_hours' = estimate_hours_saved(issue_count)
    /\ est_pc' = "hours"
    /\ UNCHANGED << inputVars, pc, counts, batchVars, decodeVars, auditVars,
                    issue_count, est_money, taxVars, restVars >>

EstimateMoney ==
    /\ est_pc = "hours"
    /\ est_money' = estimate_money_saved(est_hours)
    /\ est_pc' = "done"
    /\ UNCHANGED << inputVars, pc, counts, batchVars, decodeVars, auditVars,
                    issue_count, est_hours, taxVars, restVars >>

NextEstimate == Score \/ EstimateHours \/ EstimateMoney

SpecEstimate == InitEstimate /\ [][NextEstimate]_vars

-----------------------------------------------------------------------------
(* The /audit request *)

InitAudit ==
    /\ messages = << >>
    /\ industry = "general"
    /\ hashSeed = 0
    /\ pc = "idle"
    /\ limited = << >>
    /\ i = 0
    /\ fb = 0
    /\ counts = EmptyCounter
    /\ outstanding = 0
    /\ apiCalls = 0
    /\ batchBase = EmptyCounter
    /\ batchSize = 0
    /\ batchCause = "none"
    /\ fbRaised = 0
    /\ IdleDecode
    /\ IdleAudit
    /\ IdleEstimate
    /\ IdleTaxonomy
    /\ IdleRecommend
    /\ IdleLater
    /\ now = T0
    /\ \/ /\ app = "main"
          /\ client \in Clients
          /\ files \in AuditInputs
          /\ before \in Worlds
       \/ /\ app = "app"
          /\ client = "10.0.0.1"
          /\ files \in AppInputs
          /\ before = CHOOSE w \in Worlds : w.uploads = {}
    /\ request_counts = before.request_counts
    /\ uploads = before.uploads
    /\ report = before.report
    /\ req_pc = "arrived"
    /\ file_no = 0
    /\ saved_paths = << >>
    /\ total_size = 0
    /\ uploaded_files = << >>
    /\ all_messages = << >>
    /\ parsedFiles = {}
    /\ created = {}
    /\ classifyCalls = 0
    /\ faults = {}
    /\ audit_report = NoReport
    /\ pending = NoResponse
    /\ response = NoResponse
    /\ cleaned = 0

\* rate_limit_middleware
RateLimit ==
    /\ req_pc = "arrived"
    /\ app = "main"
    /\ LET recent == Recent(request_counts[client], now)
       IN  IF OverLimit(recent)
           THEN /\ request_counts' = [ request_counts EXCEPT ![client] = Denied(recent, now) ]
                /\ response' = ErrorResponse(HttpError(429, "Rate limit exceeded. Please wait before trying again."))
                /\ req_pc' = "done"
           ELSE /\ request_counts' = [ request_counts EXCEPT ![client] = Admitted(recent, now) ]
                /\ response' = response
                /\ req_pc' = "entered"
    /\ UNCHANGED << classifyVars, laterVars, auditVars, recVars, reqVars, uploads, report,
                    loopVars, ghostVars, audit_report, pending, cleaned >>

\* audit_files before its try block
Enter ==
    /\ req_pc = "entered"
    /\ IF Len(files) > MAX_FILES_PER_REQUEST
       THEN /\ response' = ErrorResponse(HttpError(400, "Maximum files per request"))
            /\ req_pc' = "done"
            /\ file_no' = file_no
       ELSE IF Len(files) = 0
       THEN /\ response' = ErrorResponse(HttpError(400, "No files provided."))
            /\ req_pc' = "done"
            /\ file_no' = file_no
       ELSE /\ response' = response
            /\ req_pc' = "validate"
            /\ file_no' = 1
    /\ UNCHANGED << classifyVars, laterVars, auditVars, recVars, reqVars, globalVars,
                    saved_paths, total_size, uploaded_files, all_messages,
                    ghostVars, audit_report, pending, cleaned >>

\* an exception leaves the try block: the except clauses, then finally
Raise(e) ==
    /\ pending' = ErrorResponse(Boundary(e))
    /\ req_pc' = "cleanup"

\* the head of "for file in files": validate_file
Validate ==
    /\ req_pc = "validate"
    /\ IF validate_file(files[file_no]).ok
       THEN /\ req_pc' = "write"
            /\ pending' = pending
       ELSE Raise(HttpError(400, validate_file(files[file_no]).reason))
    /\ UNCHANGED << classifyVars, laterVars, auditVars, recVars, reqVars, globalVars,
                    loopVars, ghostVars, audit_report, response, cleaned >>

CanFail == Cardinality(faults) < MaxFaults

\* open(file_path, "wb"), copyfileobj, saved_paths.append
Write(outcome) ==
    /\ req_pc = "write"
    /\ outcome = "ok" \/ CanFail
    /\ LET path == PathOf(file_no, files[file_no].filename)
       IN  /\ uploads' = IF outcome = "open_fails" THEN uploads ELSE uploads \cup { path }
           /\ created' = IF outcome = "open_fails" THEN created ELSE created \cup { path }
           /\ IF outcome = "ok"
              THEN /\ saved_paths' = Append(saved_paths, path)
                   /\ req_pc' = "size"
                   /\ pending' = pending
                   /\ faults' = faults
              ELSE /\ saved_paths' = saved_paths
                   /\ faults' = faults \cup { Fault(outcome, file_no) }
                   /\ \E text \in ExceptionTexts : Raise(Failure(text))
    /\ UNCHANGED << classifyVars, laterVars, auditVars, recVars, reqVars, request_counts,
                    report, file_no, total_size, uploaded_files, all_messages,
                    parsedFiles, classifyCalls, audit_report, response, cleaned >>

\* check_file_size and the aggregate ceiling
CheckSize ==
    /\ req_pc = "size"
    /\ LET size == files[file_no].size
       IN  IF ~ check_file_size(size)
           THEN /\ Raise(HttpError(400, "File exceeds limit"))
                /\ total_size' = total_size
           ELSE /\ total_size' = total_size + size
                /\ IF total_size + size > MAX_TOTAL_SIZE_MB * MB
                   THEN Raise(HttpError(400, "Total upload size exceeds limit."))
                   ELSE /\ req_pc' = "parse"
                        /\ pending' = pending
    /\ UNCHANGED << classifyVars, laterVars, auditVars, recVars, reqVars, globalVars,
                    file_no, saved_paths, uploaded_files, all_messages,
                    ghostVars, audit_report, response, cleaned >>

Entry(file, r) ==
    IF r.raised
    THEN [ filename |-> file.filename, content_type |-> file.content_type,
           size |-> file.size, error |-> "File could not be parsed" ]
    ELSE [ filename |-> file.filename, content_type |-> file.content_type,
           size |-> file.size, messages_extracted |-> Len(r.messages) ]

\* "Parse file content", and the step of the loop
Parse(outcome) ==
    /\ req_pc = "parse"
    /\ outcome.kind # "fails" \/ CanFail
    /\ LET r == parse_file(saved_paths[Len(saved_paths)], outcome)
       IN  /\ all_messages' = IF r.raised THEN all_messages
                                         ELSE all_messages \o r.messages
           /\ uploaded_files' = Append(uploaded_files, Entry(files[file_no], r))
    /\ parsedFiles' = parsedFiles \cup { file_no }
    /\ faults' = IF outcome.kind = "fails" THEN faults \cup { Fault("parse", file_no) }
                                           ELSE faults
    /\ IF file_no < Len(files)
       THEN /\ file_no' = file_no + 1
            /\ req_pc' = "validate"
       ELSE /\ file_no' = file_no
            /\ req_pc' = "classify"
    /\ UNCHANGED << classifyVars, laterVars, auditVars, recVars, reqVars, globalVars,
                    saved_paths, total_size, created, classifyCalls,
                    audit_report, pending, response, cleaned >>

\* "if not all_messages", classify_bulk, the savings and the score
Classify(result) ==
    /\ req_pc = "classify"
    /\ IF all_messages = << >>
       THEN /\ Raise(HttpError(400, "No content could be extracted from uploaded files."))
            /\ UNCHANGED << category_counts, auditVars, classifyCalls >>
       ELSE /\ category_counts' = result
            /\ classifyCalls' = classifyCalls + 1
            /\ total_messages' = SumCounts(result)
            /\ savings' = Savings(SumCounts(result))
            /\ automatable_count' = AutomatableCount(CountsOf(result))
            /\ automation_score' =
                   AutomationScore(AutomatableCount(CountsOf(result)), SumCounts(result))
            /\ req_pc' = "recommend"
            /\ pending' = pending
    /\ UNCHANGED << classifyVars, laterVars, rec_pc, top_categories, recommendations,
                    rec_path, reqVars, globalVars, loopVars, parsedFiles,
                    created, faults, audit_report, response, cleaned >>

\* generate_recommendations and "Build response"
Advise(outcome) ==
    /\ req_pc = "recommend"
    /\ top_categories' = MostCommon(category_counts, TOP_N)
    /\ recommendations' = Recommend(top_categories', total_messages, outcome).list
    /\ rec_path' = Recommend(top_categories', total_messages, outcome).path
    /\ audit_report' = AuditReport(Len(files), industry, category_counts, recommendations')
    /\ req_pc' = "pdf"
    /\ UNCHANGED << classifyVars, laterVars, auditVars, rec_pc, category_counts, reqVars,
                    globalVars, loopVars, ghostVars, pending, response, cleaned >>

\* "Generate PDF" and the return
Pdf(outcome) ==
    /\ req_pc = "pdf"
    /\ outcome = "ok" \/ CanFail
    /\ report' = IF outcome = "ok" THEN "this" ELSE report
    /\ faults' = IF outcome = "ok" THEN faults ELSE faults \cup { Fault("pdf", 0) }
    /\ pending' = AfterPdf(audit_report, outcome)
    /\ req_pc' = "cleanup"
    /\ UNCHANGED << classifyVars, laterVars, auditVars, recVars, reqVars, request_counts,
                    uploads, loopVars, parsedFiles, created, classifyCalls,
                    audit_report, response, cleaned >>

\* one turn of the loop of the finally block
Remove(outcome) ==
    /\ req_pc = "cleanup"
    /\ cleaned < Len(saved_paths)
    /\ outcome = "ok" \/ CanFail
    /\ uploads' = RemovePath(uploads, saved_paths[cleaned + 1], outcome)
    /\ faults' = IF outcome = "ok" THEN faults
                                   ELSE faults \cup { Fault("remove", cleaned + 1) }
    /\ cleaned' = cleaned + 1
    /\ UNCHANGED << classifyVars, laterVars, auditVars, recVars, reqVars, request_counts,
                    report, req_pc, loopVars, parsedFiles, created,
                    classifyCalls, audit_report, pending, response >>

\* the finally block is through: the return value or the exception goes out
Respond ==
    /\ req_pc = "cleanup"
    /\ cleaned = Len(saved_paths)
    /\ response' = pending
    /\ req_pc' = "done"
    /\ UNCHANGED << classifyVars, laterVars, auditVars, recVars, reqVars, globalVars,
                    loopVars, ghostVars, audit_report, pending, cleaned >>

\* app.py, audit_files: one turn of "for file in files"
AppRead(outcome) ==
    /\ req_pc = "arrived"
    /\ app = "app"
    /\ file_no < Len(files)
    /\ outcome = "ok" \/ CanFail
    /\ IF outcome = "ok"
       THEN /\ uploaded_files' = Append(uploaded_files,
                    [ filename |-> files[file_no + 1].filename,
                      content_type |-> files[file_no + 1].content_type,
                      size |-> files[file_no + 1].size ])
            /\ file_no' = file_no + 1
            /\ UNCHANGED << req_pc, response, faults >>
       ELSE /\ \E text \in ExceptionTexts :
                   response' = ErrorResponse(AppBoundary(Failure(text)))
            /\ req_pc' = "done"
            /\ faults' = faults \cup { Fault("read", file_no + 1) }
            /\ UNCHANGED << uploaded_files, file_no >>
    /\ UNCHANGED << classifyVars, laterVars, auditVars, recVars, reqVars, globalVars,
                    saved_paths, total_size, all_messages, parsedFiles, created,
                    classifyCalls, audit_report, pending, cleaned >>

MOCK_REPORT == [ status |-> "success", automation_score |-> 82 ]

\* app.py, audit_files: the mock report
AppReturn ==
    /\ req_pc = "arrived"
    /\ app = "app"
    /\ file_no = Len(files)
    /\ response' = [ status |-> 200, detail |-> "",
                     body |-> [ status |-> "success", files_analyzed |-> Len(files),
                                files |-> uploaded_files,
                                audit_results |-> MOCK_REPORT ] ]
    /\ req_pc' = "done"
    /\ UNCHANGED << classifyVars, laterVars, auditVars, recVars, reqVars, globalVars,
                    loopVars, ghostVars, audit_report, pending, cleaned >>

\* after the request returned its summary, the /audit request of another
\* client gets through "Generate PDF": create_pdf writes the one file
\* output/audit_report.pdf
OtherAudit ==
    /\ req_pc = "done"
    /\ app = "main"
    /\ response.status = 200
    /\ served = NoDownload
    /\ report # "other"
    /\ report' = "other"
    /\ UNCHANGED << classifyVars, auditVars, recVars, reqVars, request_counts,
                    uploads, req_pc, loopVars, ghostVars, audit_report, pending,
                    response, cleaned, rateVars, tableVars, served >>

\* download_report, called by the client of the request after it returned
download_report ==
    /\ req_pc = "done"
    /\ app = "main"
    /\ served = NoDownload
    /\ served' = IF report = "none" THEN [ status |-> 404, report |-> "none" ]
                                    ELSE [ status |-> 200, report |-> report ]
    /\ UNCHANGED << classifyVars, auditVars, recVars, httpVars, rateVars,
                    tableVars >>

NextAudit ==
    \/ RateLimit
    \/ Enter
    \/ Validate
    \/ \E outcome \in { "ok", "open_fails", "copy_fails" } : Write(outcome)
    \/ CheckSize
    \/ \E outcome \in ParseOutcomes : Parse(outcome)
    \/ \E result \in AuditCounters : Classify(result)
    \/ req_pc = "recommend" /\ \E outcome \in AuditRecOutcomes : Advise(outcome)
    \/ \E outcome \in { "ok", "raise" } : Pdf(outcome)
    \/ \E outcome \in { "ok", "fails" } : Remove(outcome)
    \/ Respond
    \/ \E outcome \in { "ok", "raise" } : AppRead(outcome)
    \/ AppReturn
    \/ OtherAudit
    \/ download_report

SpecAudit == InitAudit /\ [][NextAudit]_vars

-----------------------------------------------------------------------------
(* A run of generate_recommendations *)

InitRecommend ==
    /\ messages = Texts(1)
    /\ industry = "general"
    /\ hashSeed = 0
    /\ pc = "idle"
    /\ limited = << >>
    /\ i = 0
    /\ fb = 0
    /\ counts = EmptyCounter
    /\ outstanding = 0
    /\ apiCalls = 0
    /\ batchBase = EmptyCounter
    /\ batchSize = 0
    /\ batchCause = "none"
    /\ fbRaised = 0
    /\ IdleDecode
    /\ automatable_count = 0
    /\ automation_score = 0
    /\ savings = NoSavings
    /\ IdleEstimate
    /\ IdleTaxonomy
    /\ IdleHttp
    /\ IdleLater
    /\ rec_pc = "start"
    /\ category_counts \in RecCounters
    /\ total_messages = SumCounts(category_counts)
    /\ top_categories = << >>
    /\ recommendations = << >>
    /\ rec_path = "none"

\* generate_recommendations up to the completion request
RecCall ==
    /\ rec_pc = "start"
    /\ top_categories' = MostCommon(category_counts, TOP_N)
    /\ IF FindingsRaise(top_categories', total_messages)
       THEN /\ rec_pc' = "raised"
            /\ UNCHANGED << outstanding, apiCalls >>
       ELSE /\ rec_pc' = "await"
            /\ outstanding' = outstanding + 1
            /\ apiCalls' = apiCalls + 1
    /\ UNCHANGED << inputVars, pc, counts, limited, i, fb, batchBase, batchSize,
                    batchCause, fbRaised, decodeVars, auditVars, estVars,
                    taxVars, httpVars, laterVars, category_counts, recommendations,
                    rec_path >>

\* the completion returns: the rest of the try block, and the fallback
RecReturn(outcome) ==
    /\ outstanding' = outstanding - 1
    /\ recommendations' = Recommend(top_categories, total_messages, outcome).list
    /\ rec_path' = Recommend(top_categories, total_messages, outcome).path
    /\ rec_pc' = "returned"
    /\ UNCHANGED << inputVars, pc, counts, limited, i, fb, apiCalls, batchBase,
                    batchSize, batchCause, fbRaised, decodeVars, auditVars,
                    estVars, taxVars, httpVars, laterVars, category_counts,
                    top_categories >>

NextRecommend ==
    \/ RecCall
    \/ rec_pc = "await" /\ \E outcome \in RecOutcomes : RecReturn(outcome)

SpecRecommend == InitRecommend /\ [][NextRecommend]_vars

-----------------------------------------------------------------------------
(* Properties *)

\* the taxonomy an industry selector stands for
TaxonomyOf(ind) ==
    IF ind \in DOMAIN INDUSTRY_CATEGORIES
    THEN Range(INDUSTRY_CATEGORIES[ind])
    ELSE Range(INDUSTRY_CATEGORIES.general)

\* the fragments among the first 200 that are not blank
NonEmptyAmongFirst(ms) ==
    Cardinality({ k \in 1..Len(ms) : k <= MAX_MESSAGES /\ Strip(ms[k]) # << >> })

Get(c, k) == IF k \in DOMAIN c THEN c[k] ELSE 0

\* a batch has just been finished
BatchFinished == pc \in { "batch", "classified" } /\ batchCause # "none"

\* the try block of that batch ended in the except branch
FellBack == batchCause \in { "call_failed", "parse_failed", "item_failed" }

\* what the batch added to the total
Added == Total(counts) - Total(batchBase)

\* C1: when classify_bulk returns and at least one of the first 200
\* fragments is not blank, the counts sum to the number of such fragments.
C1_SumEqualsFragments ==
    (pc = "classified" /\ NonEmptyAmongFirst(messages) > 0)
        => Total(counts) = NonEmptyAmongFirst(messages)

\* C2: a batch that fell back to per-fragment classification adds exactly
\* its size to the total: nothing of the failed attempt is counted as well.
C2_FallbackAddsBatchSize ==
    (BatchFinished /\ FellBack) => Added = batchSize

\* C3: every key of the Counter is a label of the taxonomy of the request's
\* industry (the general one for an unknown industry), at every point of
\* the classification and on every path.
C3_KeysInTaxonomy == DOMAIN counts \subseteq TaxonomyOf(industry)

\* C3 witness: an unknown industry, a batch that counted items and then
\* fell back, and the classification done with more than one key.
C3_Witness ==
    /\ pc = "classified"
    /\ industry = NoIndustry
    /\ batchCause = "item_failed"
    /\ Lbl.Other \in DOMAIN counts
    /\ Cardinality(DOMAIN counts) >= 2

\* C4: with no non-blank fragment among the first 200, classify_bulk
\* returns exactly {"Other": 1} and issues no completion call.
C4_BlankInputGivesOther ==
    (pc # "start" /\ NonEmptyAmongFirst(messages) = 0)
        => /\ counts = [ k \in { Lbl.Other } |-> 1 ]
           /\ apiCalls = 0
           /\ outstanding = 0
           /\ pc \in { "classified", "scored" }

\* C4 witness: 200 blank fragments followed by a non-blank one.
C4_Witness ==
    /\ pc = "classified"
    /\ Len(messages) > MAX_MESSAGES
    /\ NonEmptyAmongFirst(messages) = 0
    /\ \E k \in 1..Len(messages) : k > MAX_MESSAGES /\ Strip(messages[k]) # << >>
    /\ counts = [ k \in { Lbl.Other } |-> 1 ]

Matching(raw, ind) ==
    { v \in TaxonomyOf(ind) :
        Lower(v) = Lower(raw) \/ IsSubstring(Lower(v), Lower(raw)) }

\* C6: the category counted for a returned item is the returned label if
\* it is a taxonomy label; else a taxonomy label that matches it without
\* regard to case or occurs in it; else "Other".
C6_ResolutionOrder ==
    item_no > 0
        => /\ raw_category \in TaxonomyOf(industry) => category = raw_category
           /\ (raw_category \notin TaxonomyOf(industry)
                 /\ Matching(raw_category, industry) # {})
                => category \in Matching(raw_category, industry)
           /\ (raw_category \notin TaxonomyOf(industry)
                 /\ Matching(raw_category, industry) = {})
                => category = Lbl.Other
           /\ Get(counts, category) > 0

\* C6 witness: a label holding two taxonomy labels, resolved to the one
\* that comes second in the list.
C6_Witness ==
    /\ item_no > 0
    /\ industry = "general"
    /\ raw_category = Txt.two_labels
    /\ category = Lbl.RefundReturn

\* the first list among the values of an object, in field order
FirstListField(fields) ==
    LET lists == { f \in 1..Len(fields) : fields[f].t = "list" }
    IN  IF lists = {} THEN << >>
        ELSE fields[CHOOSE f \in lists : \A g \in lists : f <= g].items

\* C7 as claimed: for an object, the list used is its first list-valued
\* field; deeper fields are not searched.
C7_FirstListField ==
    (pc # "parsed" /\ data.t = "dict")
        => classifications = FirstListField(data.fields)

CommonKeyRank(key) ==
    CASE key = "classifications" -> 1
      [] key = "results" -> 2
      [] key = "data" -> 3
      [] key = "items" -> 4
      [] OTHER -> 5

\* C7 as amended: for an object, the list used is the one under the first
\* of the keys classifications, results, data, items that holds a list, if
\* that list is not empty; otherwise its first list-valued field; deeper
\* fields are not searched.
C7_CommonKeysThenFirstList ==
    (pc # "parsed" /\ data.t = "dict")
        => LET fields == data.fields
               common == { f \in 1..Len(fields) :
                             fields[f].t = "list" /\ CommonKeyRank(fields[f].key) < 5 }
               best   == CHOOSE f \in common :
                             \A g \in common :
                                CommonKeyRank(fields[f].key) <= CommonKeyRank(fields[g].key)
           IN  IF common # {} /\ fields[best].items # << >>
               THEN classifications = fields[best].items
               ELSE classifications = FirstListField(fields)

\* C7 witness: {"output": [...], "results": [...]}: the list under
\* "results" is used though "output" comes first.
C7_Witness ==
    /\ pc # "parsed"
    /\ data = JDict(<< FList("output", << Obj(Lbl.NewLead) >>),
                       FList("results", << Obj(Lbl.OrderStatus) >>) >>)
    /\ classifications = << Obj(Lbl.OrderStatus) >>

\* C8: the automation score is an integer from 0 to 100, and 0 when the
\* total count is 0.
C8_ScoreInRange ==
    pc = "scored"
        => /\ total_messages = Total(counts)
           /\ automation_score \in 0..100
           /\ total_messages = 0 => automation_score = 0

\* C8 witness: every batch returned an empty array, the total is 0 and
\* the score has been computed.
C8_Witness ==
    /\ pc = "scored"
    /\ limited # << >>
    /\ total_messages = 0
    /\ automation_score = 0

\* round(n / d) of two int, as Python rounds: half to even
RoundHalfEven(n, d) ==
    LET q == n \div d
        r == n % d
    IN  IF 2 * r < d THEN q
        ELSE IF 2 * r > d THEN q + 1
        ELSE q + (q % 2)

\* C9 as claimed: the score is min(100, round(100 * automatable / total)).
C9_ScoreIsRounded ==
    (pc = "scored" /\ total_messages > 0)
        => LET r == RoundHalfEven(100 * automatable_count, total_messages)
           IN  automation_score = IF r < 100 THEN r ELSE 100

\* C9 as amended: the score is the percentage truncated, not rounded: the
\* floor of 100 * automatable / total when that is no whole number; when
\* it is a whole number k the float product may fall just below it, and
\* the score is k or k - 1.
C9_ScoreIsTruncated ==
    (pc = "scored" /\ total_messages > 0)
        => LET k == (100 * automatable_count) \div total_messages
           IN  /\ automatable_count =
                    SumOver(counts, DOMAIN counts \cap Range(AUTOMATABLE_CATEGORIES))
               /\ (100 * automatable_count) % total_messages # 0
                    => automation_score = k
               /\ (100 * automatable_count) % total_messages = 0
                    => automation_score \in { k, k - 1 }
               /\ automatable_count = 0 => automation_score = 0
               /\ automatable_count = total_messages => automation_score = 100

\* C9 witness: 29 automatable messages out of 50 score 57.
C9_Witness ==
    /\ pc = "scored"
    /\ automatable_count = 29
    /\ total_messages = 50
    /\ automation_score = 57

Doubled(s) ==
    [ hours_saved_monthly |-> FTwice(s.hours_saved_monthly),
      money_saved_monthly |-> FTwice(s.money_saved_monthly),
      annual_hours_saved  |-> FTwice(s.annual_hours_saved),
      annual_money_saved  |-> FTwice(s.annual_money_saved) ]

\* the inline estimates of audit_files for twice the count are twice the
\* estimates
InlineDoubles ==
    pc = "scored" => Savings(2 * total_messages) = Doubled(savings)

Dist(a, b) == IF a < b THEN b - a ELSE a - b

\* C10 as claimed: the estimates for 2n are exactly twice those for n, in
\* audit_files and in the savings calculator.
C10_DoublingExact ==
    /\ InlineDoubles
    /\ est_pc = "done"
         => /\ estimate_hours_saved(2 * issue_count) = FTwice(est_hours)
            /\ estimate_money_saved(estimate_hours_saved(2 * issue_count)) = 2 * est_money

\* C10 as amended: exactly twice in audit_files; in the savings
\* calculator, which rounds the hours to two decimals and truncates the
\* money, twice up to 0.01 hours and up to 5 units of money.
C10_DoublingUpToRounding ==
    /\ InlineDoubles
    /\ est_pc = "done"
         => /\ Dist(Hundredths(estimate_hours_saved(2 * issue_count)),
                    2 * Hundredths(est_hours)) <= 1
            /\ Dist(estimate_money_saved(estimate_hours_saved(2 * issue_count)),
                    2 * est_money) <= 5

\* C10 witness: one message is estimated at 0.13 hours and 39, two
\* messages at 0.27 hours and 81.
C10_Witness ==
    /\ est_pc = "done"
    /\ issue_count = 1
    /\ Hundredths(est_hours) = 13
    /\ est_money = 39
    /\ Hundredths(estimate_hours_saved(2)) = 27
    /\ estimate_money_saved(estimate_hours_saved(2)) = 81

\* the industry selector is no key of INDUSTRY_CATEGORIES
UnknownIndustry == industry \notin DOMAIN INDUSTRY_CATEGORIES

\* the taxonomies the steps of this classification have looked up so far
TaxonomiesUsed ==
    (IF promptCategories = NoCategories THEN {} ELSE { Range(promptCategories) })
    \cup (IF validCategories = NoValidCategories THEN {} ELSE { validCategories })
    \cup (IF singleCategories = NoCategories THEN {} ELSE { Range(singleCategories) })

\* C20: an industry selector that is no taxonomy key stands for the
\* "general" taxonomy in every step of one classification: the category
\* list of the batch prompt, valid_categories of the batch, and the
\* categories of every per-fragment call are all the "general" list.
C20_UnknownIndustryIsGeneral ==
    UnknownIndustry =>
        /\ TaxonomiesUsed \subseteq { Range(INDUSTRY_CATEGORIES.general) }
        /\ promptCategories \in { NoCategories, INDUSTRY_CATEGORIES.general }
        /\ singleCategories \in { NoCategories, INDUSTRY_CATEGORIES.general }

\* C20 witness: a classification with an unknown selector has sent a batch
\* prompt, resolved returned labels, fallen back to per-fragment calls and
\* returned.
C20_Witness ==
    /\ UnknownIndustry
    /\ pc = "classified"
    /\ promptCategories # NoCategories
    /\ validCategories # NoValidCategories
    /\ singleCategories # NoCategories

-----------------------------------------------------------------------------
(* Properties of the /audit request *)

\* the request went through the handler of main.py and is answered
Answered == app = "main" /\ req_pc = "done"

RemovalFailed == \E f \in faults : f.what = "remove"

\* C11: when an /audit request has finished, by whatever exit path, none
\* of the files it created in the uploads directory is left there (every
\* os.remove of the finally block having succeeded).
C11_CreatedFilesRemoved ==
    (Answered /\ ~ RemovalFailed) => created \cap uploads = {}

IsBlocked(file) == Lower(SplitExt(file.filename)) \in BLOCKED_EXTENSIONS

\* C12: a file with a blocked extension, in any letter case, is never
\* written to the uploads directory and never handed to parse_file; the
\* request that reaches it ends with status 400 at that file, and no
\* request that holds such a file succeeds.
C12_BlockedFileRejected ==
    app = "main" =>
        \A k \in 1..Len(files) :
            IsBlocked(files[k]) =>
                /\ k \notin parsedFiles
                /\ PathOf(k, files[k].filename) \notin created
                /\ response.status # 200
                /\ (req_pc = "done" /\ file_no = k) => response.status = 400

\* C12 witness: a request whose second file is spelt ".Exe" has been
\* answered with 400 at that file, after its first file was parsed.
C12_Witness ==
    /\ Answered
    /\ Len(files) = 2
    /\ IsBlocked(files[2])
    /\ SplitExt(files[2].filename) \notin BLOCKED_EXTENSIONS
    /\ file_no = 2
    /\ 1 \in parsedFiles
    /\ response.status = 400

ConstraintDetails ==
    { "Maximum files per request", "File exceeds limit",
      "Total upload size exceeds limit.",
      "File type is blocked for security reasons", "File type is not supported",
      "Content type is not allowed" }

\* C13: a request rejected for an upload constraint (file count, file
\* size, aggregate size, extension, content type) is rejected before any
\* of its files is parsed and before any classification call.
C13_ConstraintsBeforeProcessing ==
    (Answered /\ response.detail \in ConstraintDetails) =>
        parsedFiles = {} /\ classifyCalls = 0

ValidationDetails == ConstraintDetails \cup { "File has no name", "No files provided." }

ValidationRejected ==
    Answered /\ response.status = 400 /\ response.detail \in ValidationDetails

\* C14 as stated: after a request rejected for an input-validation error
\* the uploads directory, the stored report and the rate-limit lists are
\* as they were before the request.
C14_NoSideEffects ==
    ValidationRejected =>
        /\ uploads = before.uploads
        /\ report = before.report
        /\ request_counts = before.request_counts

\* C14: after a request rejected for an input-validation error the stored
\* report is as before and so is the uploads directory (but for a file
\* whose removal failed); the rate-limit list of the client has lost its
\* entries older than the window and gained the timestamp of the request,
\* the lists of the other clients are as before.
C14_OnlyTimestampRetained ==
    ValidationRejected =>
        /\ report = before.report
        /\ before.uploads \subseteq uploads
        /\ uploads \ before.uploads \subseteq
               { saved_paths[f.at] : f \in { g \in faults : g.what = "remove" } }
        /\ \A c \in Clients \ { client } : request_counts[c] = before.request_counts[c]
        /\ Len(request_counts[client]) >= 1
        /\ request_counts[client][Len(request_counts[client])] = now
        /\ \A k \in 1..(Len(request_counts[client]) - 1) :
               /\ now - request_counts[client][k] < WINDOW
               /\ \E j \in 1..Len(before.request_counts[client]) :
                      before.request_counts[client][j] = request_counts[client][k]
        /\ \A j \in 1..Len(before.request_counts[client]) :
               now - before.request_counts[client][j] < WINDOW =>
                   \E k \in 1..(Len(request_counts[client]) - 1) :
                       request_counts[client][k] = before.request_counts[client][j]

\* C14 witness: a request was rejected after it had written files, in a
\* directory that held a file before, from a client whose list held an
\* entry older than the window.
C14_Witness ==
    /\ ValidationRejected
    /\ saved_paths # << >>
    /\ before.uploads # {}
    /\ uploads = before.uploads
    /\ \E j \in 1..Len(before.request_counts[client]) :
           ~ (now - before.request_counts[client][j] < WINDOW)

\* C15: when the extraction of a file failed, the entry of that file
\* carries the error "File could not be parsed".
C15_FailedExtractionReported ==
    app = "main" =>
        \A f \in faults :
            (f.what = "parse" /\ f.at <= Len(uploaded_files)) =>
                /\ "error" \in DOMAIN uploaded_files[f.at]
                /\ uploaded_files[f.at].error = "File could not be parsed"

PdfFailed == Fault("pdf", 0) \in faults

\* what leaves the handler
Outgoing == IF req_pc = "done" THEN response ELSE pending

\* C16: when rendering the PDF failed, the request still returns the
\* success summary, with the counts, estimates and recommendations it
\* computed, and pdf_available = false.
C16_PdfFailureStillSucceeds ==
    (app = "main" /\ PdfFailed /\ req_pc \in { "cleanup", "done" }) =>
        /\ Outgoing.status = 200
        /\ Outgoing.body.status = "success"
        /\ Outgoing.body.pdf_available = FALSE
        /\ Outgoing.body.category_breakdown = CountsOf(category_counts)
        /\ Outgoing.body.total_messages_analyzed = total_messages
        /\ Outgoing.body.savings = savings
        /\ Outgoing.body.automation_score = automation_score
        /\ Outgoing.body.recommendations = recommendations

\* C16 witness: a request whose PDF step failed has been answered.
C16_Witness ==
    /\ Answered
    /\ PdfFailed
    /\ response.status = 200
    /\ response.body.pdf_available = FALSE
    /\ response.body.total_messages_analyzed > 0

\* C17: an internal-error response of an /audit handler, of main.py or of
\* app.py, carries the generic detail and no text of the exception.
C17_NoExceptionDetail ==
    (req_pc = "done" /\ response.status = 500) =>
        /\ response.detail \notin ExceptionTexts
        /\ response.detail = GENERIC_DETAIL

-----------------------------------------------------------------------------
(* Properties of generate_recommendations *)

\* C18: for a Counter with a positive total, generate_recommendations
\* does not raise and returns a list of at most 7 strings, whatever the
\* completion API does.
C18_AtMostSevenStrings ==
    total_messages > 0 =>
        /\ rec_pc # "raised"
        /\ rec_pc = "returned" =>
               /\ Len(recommendations) <= MAX_RECOMMENDATIONS
               /\ \A k \in 1..Len(recommendations) : recommendations[k].type = "str"

\* the top categories that get a sentence, in order
KeptOf(top, total) ==
    SelectSeq(top, LAMBDA p : Percent(p.count, total) > CONSIDER_ABOVE)

\* C19: on the fallback path the result has, in top-5 order, one
\* templated sentence for each top-5 category whose integer percentage is
\* above 5, with an hours figure exactly when the percentage is above 15;
\* none for a category at or below 5; and only the generic sentence when
\* no top-5 category is above 5.
C19_FallbackSentences ==
    (rec_pc = "returned" /\ rec_path = "fallback") =>
        LET top  == top_categories
            kept == KeptOf(top, total_messages)
        IN  /\ Len(top) <= TOP_N
            /\ Len(top) = (IF Len(category_counts) < TOP_N THEN Len(category_counts) ELSE TOP_N)
            /\ \A k \in 1..Len(top) : \E j \in 1..Len(category_counts) : category_counts[j] = top[k]
            /\ \A k \in 1..(Len(top) - 1) : top[k].count >= top[k + 1].count
            /\ \A j \in 1..Len(category_counts) :
                  (\A k \in 1..Len(top) : top[k] # category_counts[j]) =>
                      category_counts[j].count <= top[Len(top)].count
            /\ IF kept = << >>
               THEN recommendations = << GENERIC_RECOMMENDATION >>
               ELSE /\ Len(recommendations) = Len(kept)
                    /\ \A k \in 1..Len(kept) :
                          LET pct == Percent(kept[k].count, total_messages)
                              r   == recommendations[k]
                          IN  /\ r.kind \in { "deploy", "consider" }
                              /\ r.cat = kept[k].cat
                              /\ r.pct = pct
                              /\ (r.kind = "deploy") <=> (pct > DEPLOY_ABOVE)
                              /\ ("hours" \in DOMAIN r) <=> (pct > DEPLOY_ABOVE)

\* C19 witness: a fallback that wrote a sentence with an hours figure and
\* one without, and skipped a top category.
C19_Witness ==
    /\ rec_pc = "returned"
    /\ rec_path = "fallback"
    /\ Len(category_counts) > TOP_N
    /\ Len(recommendations) < Len(top_categories)
    /\ \E k \in 1..Len(recommendations) : recommendations[k].kind = "deploy"
    /\ \E k \in 1..Len(recommendations) : recommendations[k].kind = "consider"

-----------------------------------------------------------------------------
(* classify_batch: the order of the completion calls *)

\* C22: the batches of a run are handled one after the other: no more than
\* one completion call is outstanding, one is outstanding exactly while the
\* run waits for it, and the run stands at the head of the loop, where the
\* call of the next batch is issued, only when the batch before it is
\* finished, after every one of its fragments had its fallback call returned
\* if it fell back.
C22_BatchesInSequence ==
    /\ outstanding \in { 0, 1 }
    /\ outstanding = 1 <=> pc \in { "await_batch", "await_single" }
    /\ pc = "batch" => batchCause # "running"
    /\ pc = "batch" /\ FellBack => fb = batchSize
    /\ pc = "await_batch" /\ i > 0 => fb \in { 0, BATCH_SIZE }

\* the call of the second batch is outstanding, after the first batch fell
\* back and each of its fragments was classified on its own
C22_Witness ==
    /\ pc = "await_batch"
    /\ outstanding = 1
    /\ i = BATCH_SIZE
    /\ fb = BATCH_SIZE
    /\ apiCalls = BATCH_SIZE + 2

-----------------------------------------------------------------------------
(* classify_batch: the resolution step in two processes *)

\* C25: the category counted for a returned label does not depend on the
\* run: a run with any other string-hash seed, given the same label and the
\* same industry, counts the category this run counted.
C25_ResolutionDeterministic ==
    item_no > 0 =>
        \A seed \in AllSeeds :
            ResolveCategory(raw_category, industry, seed) = category

-----------------------------------------------------------------------------
(* audit_files: validated uploads and the readers of parse_file *)

\* C26: a file that passed validate_file is read by a reader of its format:
\* the fragment "Unsupported file type" is not among the messages a request
\* collected from its files, and so is not among those it hands to
\* classify_bulk.
C26_ValidatedFilesHaveReaders ==
    app = "main" => UNSUPPORTED_FRAGMENT \notin Range(all_messages)

-----------------------------------------------------------------------------
(* rate_limit_middleware under a stream of /audit requests.  The clock     *)
(* does not go back.  The middleware has no await between reading the      *)
(* list and appending to it, so it runs as one step; a request it admits   *)
(* is then suspended in call_next while other requests arrive.             *)

MaxTicks == 3
MaxRequests == 4

\* the request lists the stream can start from, each of them the timestamps
\* of requests that were admitted
RateWorlds == { w.request_counts : w \in Worlds }

InitRate ==
    /\ messages = << >>
    /\ industry = "general"
    /\ hashSeed = 0
    /\ pc = "idle"
    /\ limited = << >>
    /\ i = 0
    /\ fb = 0
    /\ counts = EmptyCounter
    /\ outstanding = 0
    /\ apiCalls = 0
    /\ batchBase = EmptyCounter
    /\ batchSize = 0
    /\ batchCause = "none"
    /\ fbRaised = 0
    /\ IdleDecode
    /\ IdleAudit
    /\ IdleEstimate
    /\ IdleTaxonomy
    /\ IdleRecommend
    /\ IdleTable
    /\ served = NoDownload
    /\ app = "main"
    /\ client = "none"
    /\ files = << >>
    /\ before = [ uploads |-> {}, report |-> "none", request_counts |-> << >> ]
    /\ uploads = {}
    /\ report = "none"
    /\ req_pc = "idle"
    /\ file_no = 0
    /\ saved_paths = << >>
    /\ total_size = 0
    /\ uploaded_files = << >>
    /\ all_messages = << >>
    /\ parsedFiles = {}
    /\ created = {}
    /\ classifyCalls = 0
    /\ faults = {}
    /\ audit_report = NoReport
    /\ pending = NoResponse
    /\ response = NoResponse
    /\ cleaned = 0
    /\ now = T0
    /\ request_counts \in RateWorlds
    /\ passed = request_counts
    /\ inflight = [ c \in Clients |-> 0 ]
    /\ rejected = [ c \in Clients |-> 0 ]
    /\ decision = NoDecision
    /\ sent = 0

\* time.time() moves on
Tick ==
    /\ now < T0 + MaxTicks
    /\ now' = now + 1
    /\ UNCHANGED << classifyVars, auditVars, recVars, app, client, files, before,
                    globalVars, req_pc, loopVars, ghostVars, audit_report,
                    pending, response, cleaned, rateVars, tableVars, served >>

\* rate_limit_middleware for an /audit request of client c, up to the 429
\* answer or to "await call_next(request)"
Middleware(c) ==
    /\ sent < MaxRequests
    /\ sent' = sent + 1
    /\ LET recent == Recent(request_counts[c], now)
           young  == Len(Recent(passed[c], now))
       IN  IF OverLimit(recent)
           THEN /\ request_counts' = [ request_counts EXCEPT ![c] = Denied(recent, now) ]
                /\ decision' = [ client |-> c, status |-> 429, young |-> young,
                                 after |-> rejected[c], handed |-> Len(passed[c]) ]
                /\ rejected' = [ rejected EXCEPT ![c] = @ + 1 ]
                /\ UNCHANGED << passed, inflight >>
           ELSE /\ request_counts' = [ request_counts EXCEPT ![c] = Admitted(recent, now) ]
                /\ decision' = [ client |-> c, status |-> 200, young |-> young,
                                 after |-> rejected[c], handed |-> Len(passed[c]) ]
                /\ rejected' = [ rejected EXCEPT ![c] = 0 ]
                /\ passed' = [ passed EXCEPT ![c] = Append(@, now) ]
                /\ inflight' = [ inflight EXCEPT ![c] = @ + 1 ]
    /\ UNCHANGED << classifyVars, auditVars, recVars, reqVars, uploads, report,
                    req_pc, loopVars, ghostVars, audit_report, pending,
                    response, cleaned, tableVars, served >>

\* call_next returns for a request of client c: the handler is through
Handled(c) ==
    /\ inflight[c] > 0
    /\ inflight' = [ inflight EXCEPT ![c] = @ - 1 ]
    /\ UNCHANGED << classifyVars, auditVars, recVars, httpVars, passed, rejected,
                    decision, sent, tableVars, served >>

NextRate ==
    \/ Tick
    \/ \E c \in Clients : Middleware(c)
    \/ \E c \in Clients : Handled(c)

SpecRate == InitRate /\ [][NextRate]_vars

\* C23: of the requests of one client handed to the handler, no more than
\* MAX_REQUESTS_PER_MINUTE have timestamps less than 60 seconds apart (any
\* eleven of them span 60 seconds or more), whatever requests of that and of
\* other clients are suspended in their handlers meanwhile; and a request
\* that arrives with that many in the window is answered 429 and is not
\* handed on.
C23_AtMostTenPerWindow ==
    /\ \A c \in Clients :
           \A j \in 1..Len(passed[c]) :
               \A k \in j..Len(passed[c]) :
                   k - j >= MAX_REQUESTS_PER_MINUTE =>
                       passed[c][k] - passed[c][j] >= WINDOW
    /\ \A c \in Clients :
           Len(Recent(passed[c], now)) <= MAX_REQUESTS_PER_MINUTE
    /\ decision.client \in Clients =>
           /\ decision.young >= MAX_REQUESTS_PER_MINUTE => decision.status = 429
           /\ decision.status = 429 =>
                  Len(passed[decision.client]) = decision.handed

\* a client is answered 429 at the clock value at which its tenth request
\* of the window was admitted, while a request of it is still in its handler
C23_Witness ==
    /\ decision.status = 429
    /\ decision.client = "10.0.0.1"
    /\ Len(passed["10.0.0.1"]) = MAX_REQUESTS_PER_MINUTE + 1
    /\ passed["10.0.0.1"][MAX_REQUESTS_PER_MINUTE + 1] = now
    /\ inflight["10.0.0.1"] > 0
    /\ inflight["10.0.0.2"] > 0

\* C24: a 429 answer records no timestamp: the list of a client holds the
\* timestamps of its admitted requests and no other; and a request that
\* arrives when fewer than MAX_REQUESTS_PER_MINUTE admitted timestamps of its
\* client are younger than 60 seconds is admitted, however many requests of
\* the client were rejected before it.
C24_AdmittedAgain ==
    /\ \A c \in Clients :
           Recent(request_counts[c], now) = Recent(passed[c], now)
    /\ decision.client \in Clients =>
           (decision.young < MAX_REQUESTS_PER_MINUTE => decision.status = 200)

\* a client is admitted after two of its requests were answered 429
C24_Witness ==
    /\ decision.status = 200
    /\ decision.after >= 2
    /\ decision.young = MAX_REQUESTS_PER_MINUTE - 1

-----------------------------------------------------------------------------
(* download_report after an /audit request *)

\* C27: a download that follows a request which returned its summary serves
\* the report rendered from the summary of that request, whether or not
\* other clients' requests ran in between and whether or not the request
\* said pdf_available.
C27_DownloadServesOwnReport ==
    (app = "main" /\ response.status = 200 /\ served.status = 200) =>
        served.report = "this"

-----------------------------------------------------------------------------
(* The summary audit_files hands to create_pdf, and the category table     *)
(* create_pdf renders from it.  A cell is the text given to its Paragraph. *)

DecimalDigits == << "0", "1", "2", "3", "4", "5", "6", "7", "8", "9" >>

\* str(n) of an int n >= 0
RECURSIVE Str(_)
Str(n) ==
    IF n < 10 THEN << DecimalDigits[n + 1] >>
    ELSE Str(n \div 10) \o << DecimalDigits[(n % 10) + 1] >>

\* the number a text of decimal digits reads as: -1 if it is no such text
RECURSIVE ParseInt(_)
ParseInt(s) ==
    LET d == s[Len(s)]
        v == CHOOSE k \in 0..9 : DecimalDigits[k + 1] = d
    IN  IF s = << >> \/ d \notin Range(DecimalDigits) THEN -1
        ELSE IF Len(s) = 1 THEN v
        ELSE IF ParseInt(SubSeq(s, 1, Len(s) - 1)) < 0 THEN -1
        ELSE 10 * ParseInt(SubSeq(s, 1, Len(s) - 1)) + v

\* the number of a text "<digits>%": -1 if it is no such text
ParsePct(s) ==
    IF s = << >> \/ s[Len(s)] # "%" THEN -1
    ELSE ParseInt(SubSeq(s, 1, Len(s) - 1))

HIGH_ABOVE == 20
MEDIUM_ABOVE == 10

\* one entry of top_opportunities
Opportunity(p, total) ==
    LET percentage == IF total > 0 THEN Percent(p.count, total) ELSE 0
    IN  [ area |-> p.cat,
          count |-> p.count,
          potential_saving |-> Str(percentage) \o << "%" >>,
          impact |-> IF percentage > HIGH_ABOVE THEN "High"
                     ELSE IF percentage > MEDIUM_ABOVE THEN "Medium" ELSE "Low" ]

\* "Top opportunities": most_common(5), "Other" left out when there is
\* another category
TopOpportunities(oc, total) ==
    LET kept == SelectSeq(MostCommon(oc, TOP_N),
                          LAMBDA p : ~ (p.cat = Lbl.Other /\ Len(oc) > 1))
    IN  [ k \in 1..Len(kept) |-> Opportunity(kept[k], total) ]

\* audit_data, without the recommendations and the two estimate texts,
\* which the category table does not read; dict(category_counts) keeps the
\* insertion order of the Counter
AuditData(oc, total) ==
    [ total_messages |-> total,
      category_breakdown |-> oc,
      top_opportunities |-> TopOpportunities(oc, total),
      automation_score |-> AutomationScore(AutomatableCount(CountsOf(oc)), total) ]

high_automation ==
    { Lbl.OrderStatus, Lbl.RefundReturn, Lbl.PaymentIssue, Lbl.BillingInquiry,
      Lbl.TechnicalSupport, Lbl.AccountAccess, Lbl.ShippingDelivery,
      Lbl.LeaveRequest, Lbl.AccessPermissions, Lbl.SoftwareIssue }

\* sorted(category_breakdown.items(), key=lambda x: x[1], reverse=True):
\* the sort is stable, equal counts stay in the order of the dict
sorted_cats(category_breakdown) == MostCommon(category_breakdown, Len(category_breakdown))

\* the percentage cell as it would be with round() in place of int()
TablePctRounded(count, total) ==
    IF total > 0 THEN Str(PercentRounded(count, total)) \o << "%" >>
    ELSE << "0", "%" >>

\* f"{int(count / total * 100)}%" if total > 0 else "0%"
TablePct(count, total) ==
    IF total > 0 THEN Str(Percent(count, total)) \o << "%" >>
    ELSE << "0", "%" >>

\* the rows appended to table_data, one for each category
CategoryTable(summary) ==
    LET total == summary.total_messages
        cats  == sorted_cats(summary.category_breakdown)
    IN  [ k \in 1..Len(cats) |->
            [ cat       |-> cats[k].cat,
              count     |-> Str(cats[k].count),
              pct       |-> TablePct(cats[k].count, total),
              potential |-> IF cats[k].cat \in high_automation THEN "High"
                                                               ELSE "Medium" ] ]

\* audit_files reaches "Top opportunities" with the Counter classify_bulk
\* returned, which has at least one category
InitReport ==
    /\ messages = Texts(1)
    /\ industry = "general"
    /\ hashSeed = 0
    /\ pc = "idle"
    /\ limited = << >>
    /\ i = 0
    /\ fb = 0
    /\ counts = EmptyCounter
    /\ outstanding = 0
    /\ apiCalls = 0
    /\ batchBase = EmptyCounter
    /\ batchSize = 0
    /\ batchCause = "none"
    /\ fbRaised = 0
    /\ IdleDecode
    /\ automatable_count = 0
    /\ automation_score = 0
    /\ savings = NoSavings
    /\ IdleEstimate
    /\ IdleTaxonomy
    /\ IdleHttp
    /\ IdleRate
    /\ served = NoDownload
    /\ rec_pc = "idle"
    /\ category_counts \in RecCounters \ { << >> }
    /\ total_messages = SumCounts(category_counts)
    /\ top_categories = << >>
    /\ recommendations = << >>
    /\ rec_path = "none"
    /\ audit_data = NoSummary
    /\ table_data = << >>
    /\ pdf_pc = "start"

\* audit_files: "Top opportunities" and the audit_data of "Generate PDF"
Summarize ==
    /\ pdf_pc = "start"
    /\ audit_data' = AuditData(category_counts, total_messages)
    /\ pdf_pc' = "summary"
    /\ UNCHANGED << classifyVars, auditVars, recVars, httpVars, rateVars,
                    table_data, served >>

\* create_pdf: "Category Breakdown Table"
create_pdf ==
    /\ pdf_pc = "summary"
    /\ table_data' = IF audit_data.category_breakdown # << >>
                     THEN CategoryTable(audit_data) ELSE << >>
    /\ pdf_pc' = "rendered"
    /\ UNCHANGED << classifyVars, auditVars, recVars, httpVars, rateVars,
                    audit_data, served >>

NextReport == Summarize \/ create_pdf

SpecReport == InitReport /\ [][NextReport]_vars

\* the row of the table that names a category
RowsOf(cat) == { k \in 1..Len(table_data) : table_data[k].cat = cat }

\* C21: read back, the rows of the rendered category table give every
\* category of the summary once, with the count the summary gives for it
\* and with the percentage the summary gives for it (its share of
\* total_messages as audit_files computes shares, which is also the text of
\* its entry in top_opportunities if it has one), and the rows are in
\* descending order of count.
C21_CategoryTableRoundTrip ==
    pdf_pc = "rendered" =>
        /\ Len(table_data) = Len(audit_data.category_breakdown)
        /\ \A j \in 1..Len(audit_data.category_breakdown) :
               LET p == audit_data.category_breakdown[j]
               IN  /\ Cardinality(RowsOf(p.cat)) = 1
                   /\ \A k \in RowsOf(p.cat) :
                          /\ ParseInt(table_data[k].count) = p.count
                          /\ ParsePct(table_data[k].pct) =
                                 Percent(p.count, audit_data.total_messages)
                          /\ \A o \in Range(audit_data.top_opportunities) :
                                 o.area = p.cat =>
                                     /\ table_data[k].pct = o.potential_saving
                                     /\ ParseInt(table_data[k].count) = o.count
        /\ \A k \in 1..(Len(table_data) - 1) :
               ParseInt(table_data[k].count) >= ParseInt(table_data[k + 1].count)

\* a table of two rows in the reverse of the order of the summary, with a
\* count of two digits and shares that int() cuts off
C21_Witness ==
    /\ pdf_pc = "rendered"
    /\ audit_data.category_breakdown = << Pair(RecLabels[1], 5), Pair(RecLabels[2], 12) >>
    /\ Len(audit_data.top_opportunities) = 2
    /\ table_data[1].cat = RecLabels[2]
    /\ table_data[1].count = << "1", "2" >>
    /\ table_data[1].pct = << "7", "0", "%" >>
    /\ table_data[2].pct = << "2", "9", "%" >>

====
